---- MODULE Spec2Model ----
(***************************************************************************)
(* Tablet lifecycle and transaction admission core of the tablet server.   *)
(*                                                                         *)
(*   - TransactionTracker (transaction_tracker.cc): Add / Release of       *)
(*     transaction drivers against a MemTracker tree, gauges and           *)
(*     rejection counters.                                                 *)
(*   - TSTabletManager (ts_tablet_manager.cc): Init, CreateNewTablet,      *)
(*     DeleteTablet, OpenTablet, Shutdown and the tablet reports.          *)
(*                                                                         *)
(* Every C++ statement sequence that runs between two points where another *)
(* thread can observe or change shared state is one action.                *)
(***************************************************************************)
EXTENDS Integers, Sequences, FiniteSets, TLC

(***************************************************************************)
(* Bounds of the model.                                                    *)
(***************************************************************************)
\* Number of transaction drivers (each is one calling thread).
NumDrivers == 3
\* Cap on the rejections the trackers count (the counters are unbounded).
MaxRejections == 2
\* Drivers beside the thread that waits for the transactions (DrainSpec).
DrainSpecDrivers == 2
\* Drivers beside the StartInstrumentation and StartMemoryTracking calls
\* (StartSpec).
StartSpecDrivers == 2

(***************************************************************************)
(* Transaction tracker: inputs.                                            *)
(***************************************************************************)
Drivers == 1..NumDrivers
\* Two tablets' trackers, children of one parent MemTracker.
Trackers == {"trk1", "trk2"}
RootNode == "root"
Nodes == Trackers \cup {RootNode}

KiB == 1024
\* Request sizes (request()->SpaceUsed()), in bytes.
FootprintValues == {400 * KiB, 700 * KiB}
\* Values of --tablet_transaction_memory_limit_mb: disabled, or 1 MiB.
FlagValues == {0 - 1, 1}
\* Limit of the parent MemTracker handed to StartMemoryTracking, in bytes.
RootLimit == 1280 * KiB

WRITE_TXN == "WRITE_TXN"
ALTER_SCHEMA_TXN == "ALTER_SCHEMA_TXN"
\* driver.tx_type(): fixed when the driver is built.
TxTypeOf(d) == IF d % 2 = 1 THEN WRITE_TXN ELSE ALTER_SCHEMA_TXN

VARIABLES
  \* ---- TransactionTracker ----
  FLAGS_tablet_transaction_memory_limit_mb,
  mem_tracker_,            \* [Trackers -> BOOLEAN]: mem_tracker_ is non-null
  metrics_,                \* [Trackers -> BOOLEAN]: metrics_ is non-null
  consumption,             \* [Nodes -> Int]: MemTracker consumption, bytes
  all_transactions_inflight,           \* [Trackers -> Int] gauge
  write_transactions_inflight,         \* [Trackers -> Int] gauge
  alter_schema_transactions_inflight,  \* [Trackers -> Int] gauge
  transaction_memory_pressure_rejections,  \* [Trackers -> Nat] counter
  transaction_memory_limit_rejections,     \* [Trackers -> Nat] counter
  pending_txns_,           \* [Trackers -> [subset of Drivers -> footprint]]
  txn_pc,                  \* [Drivers -> position of the driver's thread]
  txn_tracker,             \* [Drivers -> tracker of the call in progress]
  driver_mem_footprint,    \* [Drivers -> local of Add]
  txn_consumed,            \* [Drivers -> bytes TryConsume took for the driver]
  txn_fatal,               \* a CHECK / DCHECK / LOG(FATAL) of the tracker fired
  released,                \* drivers for which a Release call has returned
  refused_own_limit,       \* [Drivers -> BOOLEAN]: when TryConsume refused the
                           \* driver's request, the request exceeded the
                           \* tracker's own limit
  \* ---- TransactionTracker::WaitForAllToFinish ----
  now_us,                  \* MonoTime::Now(), microseconds
  wait_pc,                 \* position of the waiting thread
  wait_tracker,            \* tracker the call is made on
  timeout,                 \* argument of the call, microseconds
  start_time,              \* local of the call
  wait_time_us,            \* local of the call
  txns,                    \* local of the call: the latest snapshot
  wait_status,             \* Status returned, with the count it reports
  lock_,                   \* [Trackers -> BOOLEAN]: the waiting thread holds
                           \* the tracker's lock_ between two of its steps
  last_sleep_us            \* the time the latest SleepFor of the call took,
                           \* 0 before the first

trackerVars == <<FLAGS_tablet_transaction_memory_limit_mb, mem_tracker_, metrics_,
                 consumption, all_transactions_inflight,
                 write_transactions_inflight, alter_schema_transactions_inflight,
                 transaction_memory_pressure_rejections,
                 transaction_memory_limit_rejections, pending_txns_, txn_pc,
                 txn_tracker, driver_mem_footprint, txn_consumed, txn_fatal,
                 released, refused_own_limit, now_us, wait_pc, wait_tracker,
                 timeout,
                 start_time, wait_time_us, txns, wait_status, lock_,
                 last_sleep_us>>

waitVars == <<now_us, wait_pc, wait_tracker, timeout, start_time,
              wait_time_us, txns, wait_status, lock_, last_sleep_us>>

txnVars == <<FLAGS_tablet_transaction_memory_limit_mb, mem_tracker_, metrics_,
             consumption, all_transactions_inflight,
             write_transactions_inflight, alter_schema_transactions_inflight,
             transaction_memory_pressure_rejections,
             transaction_memory_limit_rejections, pending_txns_, txn_pc,
             txn_tracker, driver_mem_footprint, txn_consumed, txn_fatal,
             released, refused_own_limit>>

(***************************************************************************)
(* Tablet manager: bounds and inputs.                                      *)
(***************************************************************************)
\* Threads calling CreateNewTablet; each makes one call.
NumCreators == 2
\* Threads calling DeleteTablet; each makes one call.
NumDeleters == 2
\* Threads calling Shutdown; each makes one call.
NumShutdownCallers == 2
\* DeleteTablet callers in the specifications that are not about DeleteTablet.
BackgroundDeleters == 1
\* Threads generating and acknowledging tablet reports.
NumReporters == 2
\* TabletPeer objects that may be built for one tablet identifier.
MaxIncarnations == 1
\* Reports generated in one run (next_report_seq_ is an unbounded counter).
MaxReports == 2
\* Shutdown callers racing the CreateNewTablet callers (CreateSpec).
CreateSpecShutdownCallers == 1
\* CreateNewTablet callers racing the Shutdown callers (LifecycleSpec).
LifecycleSpecCreators == 1
\* CreateNewTablet callers beside the reporters (ReportSpec).
ReportSpecCreators == 1
\* CreateNewTablet callers beside the DeleteTablet callers (DeleteSpec).
DeleteSpecCreators == 1
\* CreateNewTablet callers of ShutdownSpec.
ShutdownSpecCreators == 1

Creators == 1..NumCreators
Deleters == 1..NumDeleters
ShutdownCallers == 1..NumShutdownCallers
Reporters == 1..NumReporters
Tablets == {"t1", "t2"}
\* Tablets whose master block is in the master block directory at start-up.
DiskTablets == {"t1"}
\* A TabletPeer object: the tablet identifier and which object it is.
Peers == Tablets \X (1..MaxIncarnations)
NoTablet == "-"
NoPeer == <<NoTablet, 0>>

MANAGER_INITIALIZING == "MANAGER_INITIALIZING"
MANAGER_RUNNING == "MANAGER_RUNNING"
MANAGER_QUIESCING == "MANAGER_QUIESCING"
MANAGER_SHUTDOWN == "MANAGER_SHUTDOWN"

\* TabletPeer states; PEER_UNBORN: the object is not built yet.
PEER_UNBORN == "UNBORN"
PEER_INITIALIZING == "INITIALIZING"
PEER_RUNNING == "RUNNING"
PEER_FAILED == "FAILED"
PEER_QUIESCING == "QUIESCING"
PEER_SHUTDOWN == "SHUTDOWN"

VARIABLES
  \* ---- TSTabletManager ----
  state_,                  \* manager state
  tablet_map_,             \* [subset of Tablets -> Peers]
  creates_in_progress_,    \* set of tablet identifiers
  dirty_tablets_,          \* [subset of Tablets -> change_seq]
  next_report_seq_,        \* int32 counter
  lock_shared_,            \* reporters holding lock_ in shared mode
  peer_state,              \* [Peers -> TabletPeer state]
  peer_error,              \* [Peers -> error set by SetFailed, or "none"]
  peer_tablet,             \* [Peers -> BOOLEAN]: tablet() is not NULL
  pool_queue,              \* open_tablet_pool_: submitted jobs, oldest first
  pool_shutdown,           \* open_tablet_pool_->Shutdown() was called
  executor_shutdowns,      \* Shutdown() calls made on the apply executors
  mgr_fatal,               \* the CHECK or LOG(FATAL) that aborted, or "none"
  \* ---- the thread running Init ----
  init_pc, init_todo, init_tablet, init_status,
  \* ---- threads running CreateNewTablet ----
  create_pc, create_tablet, create_status,
  \* ---- threads running DeleteTablet ----
  delete_pc, delete_peer, prev_state, delete_status,
  \* ---- threads running Shutdown ----
  shutdown_pc, peers_to_shutdown, shutdown_todo, shutdown_peer,
  \* ---- the bootstrap pool's worker running OpenTablet ----
  open_pc, open_tablet, open_peer,
  \* ---- threads generating / acknowledging reports ----
  report_pc, report_seq,
  report,                  \* the TabletReportPB filled in most recently
  generated_reports,       \* sequence numbers of the reports generated so far
  previous_full,           \* the report generated before that one was a full
                           \* report
  report_acked,            \* that report was acknowledged since
  marked_since_report,     \* tablets marked dirty since the latest report
  deleted_since_report,    \* tablets whose DeleteTablet returned OK since the
                           \* latest report
  failed_since_report      \* tablets whose OpenTablet job failed since the
                           \* latest report

managerVars == <<state_, tablet_map_, creates_in_progress_, dirty_tablets_,
                 next_report_seq_, lock_shared_, peer_state, peer_error,
                 peer_tablet,
                 pool_queue, pool_shutdown, executor_shutdowns, mgr_fatal,
                 init_pc, init_todo, init_tablet, init_status,
                 create_pc, create_tablet, create_status,
                 delete_pc, delete_peer, prev_state, delete_status,
                 shutdown_pc, peers_to_shutdown, shutdown_todo, shutdown_peer,
                 open_pc, open_tablet, open_peer,
                 report_pc, report_seq, report, generated_reports,
                 previous_full, report_acked, marked_since_report, deleted_since_report,
                 failed_since_report>>

vars == <<trackerVars, managerVars>>

NoTracker == "none"
\* No report was generated yet.
NoReport == [sequence_number |-> 0 - 1, is_incremental |-> FALSE,
             updated_tablets |-> {}, removed_tablet_ids |-> {}]
EmptyMap == [x \in {} |-> 0]

(***************************************************************************)
(* MemTracker (kudu/util/mem_tracker): a node has a limit (negative: none) *)
(* and a parent; consumption and release propagate to every ancestor.      *)
(***************************************************************************)
\* limit(): the tracker node is created with flag * 1024 * 1024.
Limit(n) ==
  IF n = RootNode THEN RootLimit
  ELSE FLAGS_tablet_transaction_memory_limit_mb * 1024 * 1024

\* The node and its ancestors up to the root.
Chain(n) == IF n = RootNode THEN {RootNode} ELSE {n, RootNode}

\* One node admits `bytes` more.
FitsNode(cons, n, bytes) == Limit(n) < 0 \/ cons[n] + bytes <= Limit(n)

\* TryConsume(bytes): TRUE iff every node of the chain admits the bytes.
TryConsume(cons, n, bytes) == \A a \in Chain(n) : FitsNode(cons, a, bytes)

\* Consumption after a successful TryConsume / after Consume.
Consumed(cons, n, bytes) ==
  [a \in Nodes |-> IF a \in Chain(n) THEN cons[a] + bytes ELSE cons[a]]

\* CanConsumeNoAncestors(bytes): the node's own limit only.
CanConsumeNoAncestors(cons, n, bytes) == FitsNode(cons, n, bytes)

\* Release(bytes): given back to the node and to every ancestor.
Released(cons, n, bytes) ==
  [a \in Nodes |-> IF a \in Chain(n) THEN cons[a] - bytes ELSE cons[a]]

(***************************************************************************)
(* Gauges are uint64: arithmetic is modulo 2^64.  A value is represented   *)
(* by its signed residue, so 2^64 - 1 is written -1 and "value() > 0" on   *)
(* the unsigned value is "value # 0".                                      *)
(***************************************************************************)
GaugePositive(v) == v # 0

RECURSIVE SumOver(_, _)
\* Sum of f[x] over the finite set S.
SumOver(f, S) ==
  IF S = {} THEN 0
  ELSE LET x == CHOOSE y \in S : TRUE IN f[x] + SumOver(f, S \ {x})

\* Sum of the cached memory_footprint values of one tracker's map.
FootprintSum(k) == SumOver(pending_txns_[k], DOMAIN pending_txns_[k])

(***************************************************************************)
(* TransactionTracker, state after construction: no metrics, no memory     *)
(* tracker, empty map.                                                     *)
(***************************************************************************)
\* The Status of a call that has not returned.
NoStatus == [code |-> "none", pending |-> 0]

\* No WaitForAllToFinish call was made yet.
NoWaitCall ==
  /\ now_us = 0
  /\ wait_pc = "idle"
  /\ wait_tracker = NoTracker
  /\ timeout = 0
  /\ start_time = 0
  /\ wait_time_us = 0
  /\ txns = {}
  /\ wait_status = NoStatus
  /\ lock_ = [k \in Trackers |-> FALSE]
  /\ last_sleep_us = 0

TrackerConstructed ==
  /\ mem_tracker_ = [k \in Trackers |-> FALSE]
  /\ metrics_ = [k \in Trackers |-> FALSE]
  /\ consumption = [n \in Nodes |-> 0]
  /\ all_transactions_inflight = [k \in Trackers |-> 0]
  /\ write_transactions_inflight = [k \in Trackers |-> 0]
  /\ alter_schema_transactions_inflight = [k \in Trackers |-> 0]
  /\ transaction_memory_pressure_rejections = [k \in Trackers |-> 0]
  /\ transaction_memory_limit_rejections = [k \in Trackers |-> 0]
  /\ pending_txns_ = [k \in Trackers |-> EmptyMap]
  /\ txn_pc = [d \in Drivers |-> "idle"]
  /\ txn_tracker = [d \in Drivers |-> NoTracker]
  /\ driver_mem_footprint = [d \in Drivers |-> 0]
  /\ txn_consumed = [d \in Drivers |-> 0]
  /\ txn_fatal = FALSE
  /\ refused_own_limit = [d \in Drivers |-> FALSE]
  /\ released = {}
  /\ NoWaitCall

\* StartInstrumentation: metrics_.reset(new Metrics(entity)); the gauges are
\* instantiated with 0 and the counters start at 0.
StartInstrumentation(k) ==
  /\ ~txn_fatal
  /\ ~metrics_[k]
  /\ metrics_' = [metrics_ EXCEPT ![k] = TRUE]
  /\ all_transactions_inflight' = [all_transactions_inflight EXCEPT ![k] = 0]
  /\ write_transactions_inflight' = [write_transactions_inflight EXCEPT ![k] = 0]
  /\ alter_schema_transactions_inflight' =
       [alter_schema_transactions_inflight EXCEPT ![k] = 0]
  /\ transaction_memory_pressure_rejections' =
       [transaction_memory_pressure_rejections EXCEPT ![k] = 0]
  /\ transaction_memory_limit_rejections' =
       [transaction_memory_limit_rejections EXCEPT ![k] = 0]
  /\ UNCHANGED <<managerVars, waitVars, refused_own_limit, released>>
  /\ UNCHANGED <<FLAGS_tablet_transaction_memory_limit_mb, mem_tracker_,
                 consumption, pending_txns_, txn_pc, txn_tracker,
                 driver_mem_footprint, txn_consumed, txn_fatal>>

\* StartMemoryTracking: unless the flag is -1, mem_tracker_ becomes a fresh
\* child of the parent tracker, with no consumption.
StartMemoryTracking(k) ==
  /\ ~txn_fatal
  /\ ~mem_tracker_[k]
  /\ FLAGS_tablet_transaction_memory_limit_mb # 0 - 1
  /\ mem_tracker_' = [mem_tracker_ EXCEPT ![k] = TRUE]
  /\ consumption' = [consumption EXCEPT ![k] = 0]
  /\ UNCHANGED <<managerVars, waitVars, refused_own_limit, released>>
  /\ UNCHANGED <<FLAGS_tablet_transaction_memory_limit_mb, metrics_,
                 all_transactions_inflight, write_transactions_inflight,
                 alter_schema_transactions_inflight,
                 transaction_memory_pressure_rejections,
                 transaction_memory_limit_rejections, pending_txns_, txn_pc,
                 txn_tracker, driver_mem_footprint, txn_consumed,
                 txn_fatal>>

(***************************************************************************)
(* TransactionTracker::Add                                                 *)
(***************************************************************************)
\* Add calls that were refused by TryConsume and have not counted it yet.
RejectionsInProgress ==
  Cardinality({d \in Drivers : txn_pc[d] = "add_rejected"})

\* Rejections counted by all trackers so far.
RejectionsCounted ==
  SumOver(transaction_memory_pressure_rejections, Trackers)

\* Faulty variant of AddReturnsUnavailable: the refused call does not return
\* and goes on to line 171.
AddFallsThrough(d) ==
  /\ txn_pc' = [txn_pc EXCEPT ![d] = "add_admitted"]
  /\ UNCHANGED <<txn_tracker, driver_mem_footprint>>

\* Lines 155-168: return Status::ServiceUnavailable; the locals of Add go out
\* of scope.
AddReturnsUnavailable(d) ==
  /\ txn_pc' = [txn_pc EXCEPT ![d] = "idle"]
  /\ txn_tracker' = [txn_tracker EXCEPT ![d] = NoTracker]
  /\ driver_mem_footprint' = [driver_mem_footprint EXCEPT ![d] = 0]

\* Faulty variant of AddRefused: only the tracker's own node is consulted.
AddRefusedNodeOnly(k, b) ==
  mem_tracker_[k] /\ ~CanConsumeNoAncestors(consumption, k, b)

\* Faulty variant of AddRefused: every request is refused while a memory
\* tracker is attached.
AddRefusedAlways(k, b) == mem_tracker_[k]

\* Line 147: mem_tracker_ && !mem_tracker_->TryConsume(driver_mem_footprint).
AddRefused(k, b) == mem_tracker_[k] /\ ~TryConsume(consumption, k, b)

\* Lines 146-147: measure the request, then the test of line 147.
\* (The model stops refusing once MaxRejections refusals were counted.)
AddTryConsume(d, k, b) ==
  /\ ~txn_fatal
  /\ txn_pc[d] = "idle"
  /\ IF AddRefused(k, b)
       THEN /\ RejectionsCounted + RejectionsInProgress < MaxRejections
            /\ txn_pc' = [txn_pc EXCEPT ![d] = "add_rejected"]
            /\ refused_own_limit' =
                 [refused_own_limit EXCEPT
                    ![d] = ~CanConsumeNoAncestors(consumption, k, b)]
            /\ UNCHANGED <<consumption, txn_consumed>>
       ELSE /\ txn_pc' = [txn_pc EXCEPT ![d] = "add_admitted"]
            /\ UNCHANGED refused_own_limit
            /\ consumption' = IF mem_tracker_[k]
                                THEN Consumed(consumption, k, b)
                                ELSE consumption
            /\ txn_consumed' =
                 [txn_consumed EXCEPT ![d] = IF mem_tracker_[k] THEN b ELSE 0]
  /\ txn_tracker' = [txn_tracker EXCEPT ![d] = k]
  /\ driver_mem_footprint' = [driver_mem_footprint EXCEPT ![d] = b]
  /\ UNCHANGED <<managerVars, waitVars, released>>
  /\ UNCHANGED <<FLAGS_tablet_transaction_memory_limit_mb, mem_tracker_, metrics_,
                 all_transactions_inflight, write_transactions_inflight,
                 alter_schema_transactions_inflight,
                 transaction_memory_pressure_rejections,
                 transaction_memory_limit_rejections, pending_txns_, txn_fatal>>

\* Lines 148-149: if (metrics_) pressure_rejections->Increment(); without
\* metrics, lines 155-168: return Status::ServiceUnavailable.
AddCountPressure(d) ==
  /\ ~txn_fatal
  /\ txn_pc[d] = "add_rejected"
  /\ LET k == txn_tracker[d] IN
       IF metrics_[k]
         THEN /\ transaction_memory_pressure_rejections' =
                   [transaction_memory_pressure_rejections EXCEPT ![k] = @ + 1]
              /\ txn_pc' = [txn_pc EXCEPT ![d] = "add_counted"]
              /\ UNCHANGED <<txn_tracker, driver_mem_footprint,
                             refused_own_limit>>
         ELSE /\ UNCHANGED transaction_memory_pressure_rejections
              /\ AddReturnsUnavailable(d)
              /\ refused_own_limit' = [refused_own_limit EXCEPT ![d] = FALSE]
  /\ UNCHANGED <<managerVars, waitVars, released>>
  /\ UNCHANGED <<FLAGS_tablet_transaction_memory_limit_mb, mem_tracker_, metrics_,
                 consumption, all_transactions_inflight,
                 write_transactions_inflight, alter_schema_transactions_inflight,
                 transaction_memory_limit_rejections, pending_txns_,
                 txn_consumed, txn_fatal>>

\* Lines 150-168: if (!CanConsumeNoAncestors(b)) limit_rejections->Increment();
\* then return Status::ServiceUnavailable.
AddCountLimit(d) ==
  /\ ~txn_fatal
  /\ txn_pc[d] = "add_counted"
  /\ LET k == txn_tracker[d] IN
       transaction_memory_limit_rejections' =
         [transaction_memory_limit_rejections EXCEPT
            ![k] = IF CanConsumeNoAncestors(consumption, k, driver_mem_footprint[d])
                     THEN @ ELSE @ + 1]
  /\ AddReturnsUnavailable(d)
  /\ refused_own_limit' = [refused_own_limit EXCEPT ![d] = FALSE]
  /\ UNCHANGED <<managerVars, waitVars, released>>
  /\ UNCHANGED <<FLAGS_tablet_transaction_memory_limit_mb, mem_tracker_, metrics_,
                 consumption, all_transactions_inflight,
                 write_transactions_inflight, alter_schema_transactions_inflight,
                 transaction_memory_pressure_rejections, pending_txns_,
                 txn_consumed, txn_fatal>>

\* Faulty variant of TypeGauge: the gauge moves for every transaction type.
TypeGaugeAnyType(gauge, type, d, k, delta) == [gauge EXCEPT ![k] = @ + delta]

\* Gauge of the driver's transaction type after adding `delta`.
TypeGauge(gauge, type, d, k, delta) ==
  IF TxTypeOf(d) = type THEN [gauge EXCEPT ![k] = @ + delta] ELSE gauge

\* Line 171 and lines 182-196: IncrementCounters.
AddIncrementCounters(d) ==
  /\ ~txn_fatal
  /\ txn_pc[d] = "add_admitted"
  /\ LET k == txn_tracker[d] IN
       IF metrics_[k]
         THEN /\ all_transactions_inflight' =
                   [all_transactions_inflight EXCEPT ![k] = @ + 1]
              /\ write_transactions_inflight' =
                   TypeGauge(write_transactions_inflight, WRITE_TXN, d, k, 1)
              /\ alter_schema_transactions_inflight' =
                   TypeGauge(alter_schema_transactions_inflight,
                             ALTER_SCHEMA_TXN, d, k, 1)
         ELSE UNCHANGED <<all_transactions_inflight, write_transactions_inflight,
                          alter_schema_transactions_inflight>>
  /\ txn_pc' = [txn_pc EXCEPT ![d] = "add_counted_in"]
  /\ UNCHANGED <<managerVars, waitVars, refused_own_limit, released>>
  /\ UNCHANGED <<FLAGS_tablet_transaction_memory_limit_mb, mem_tracker_, metrics_,
                 consumption, transaction_memory_pressure_rejections,
                 transaction_memory_limit_rejections, pending_txns_, txn_tracker,
                 driver_mem_footprint, txn_consumed, txn_fatal>>

\* std::lock_guard<simple_spinlock> l(lock_) gets the lock once no other
\* thread holds it.
LockFree(k) == ~lock_[k]

\* The map with the entry driver -> {memory_footprint} added.
MapInsert(m, d, b) == [x \in DOMAIN m \cup {d} |-> IF x = d THEN b ELSE m[x]]

\* The map without the driver's entry.
MapErase(m, d) == [x \in DOMAIN m \ {d} |-> m[x]]

\* Lines 175-179: under lock_, InsertOrDie(&pending_txns_, driver, st); OK.
AddInsert(d) ==
  /\ ~txn_fatal
  /\ txn_pc[d] = "add_counted_in"
  /\ LockFree(txn_tracker[d])
  /\ LET k == txn_tracker[d] IN
       IF d \in DOMAIN pending_txns_[k]
         THEN /\ txn_fatal' = TRUE
              /\ UNCHANGED <<pending_txns_, txn_pc>>
         ELSE /\ pending_txns_' =
                   [pending_txns_ EXCEPT
                      ![k] = MapInsert(@, d, driver_mem_footprint[d])]
              /\ txn_pc' = [txn_pc EXCEPT ![d] = "pending"]
              /\ UNCHANGED txn_fatal
  /\ UNCHANGED <<managerVars, waitVars, refused_own_limit, released>>
  /\ UNCHANGED <<FLAGS_tablet_transaction_memory_limit_mb, mem_tracker_, metrics_,
                 consumption, all_transactions_inflight,
                 write_transactions_inflight, alter_schema_transactions_inflight,
                 transaction_memory_pressure_rejections,
                 transaction_memory_limit_rejections, txn_tracker,
                 driver_mem_footprint, txn_consumed>>

(***************************************************************************)
(* TransactionTracker::Release                                             *)
(***************************************************************************)
\* A DCHECK_GT(gauge, 0) of DecrementCounters fails for this driver.
DecrementCheckFails(d, k) ==
  \/ ~GaugePositive(all_transactions_inflight[k])
  \/ /\ TxTypeOf(d) = WRITE_TXN
     /\ ~GaugePositive(write_transactions_inflight[k])
  \/ /\ TxTypeOf(d) = ALTER_SCHEMA_TXN
     /\ ~GaugePositive(alter_schema_transactions_inflight[k])

\* Line 218 and lines 198-215: DecrementCounters.  A failing DCHECK aborts a
\* debug build and is compiled out of a release build.
ReleaseDecrementCounters(d) ==
  /\ ~txn_fatal
  /\ txn_pc[d] = "pending"
  /\ LET k == txn_tracker[d] IN
       \/ /\ metrics_[k]
          /\ all_transactions_inflight' =
               [all_transactions_inflight EXCEPT ![k] = @ - 1]
          /\ write_transactions_inflight' =
               TypeGauge(write_transactions_inflight, WRITE_TXN, d, k, 0 - 1)
          /\ alter_schema_transactions_inflight' =
               TypeGauge(alter_schema_transactions_inflight,
                         ALTER_SCHEMA_TXN, d, k, 0 - 1)
          /\ txn_pc' = [txn_pc EXCEPT ![d] = "release_counted"]
          /\ UNCHANGED txn_fatal
       \/ /\ ~metrics_[k]
          /\ txn_pc' = [txn_pc EXCEPT ![d] = "release_counted"]
          /\ UNCHANGED <<all_transactions_inflight, write_transactions_inflight,
                         alter_schema_transactions_inflight, txn_fatal>>
       \/ /\ metrics_[k]
          /\ DecrementCheckFails(d, k)
          /\ txn_fatal' = TRUE
          /\ UNCHANGED <<all_transactions_inflight, write_transactions_inflight,
                         alter_schema_transactions_inflight, txn_pc>>
  /\ UNCHANGED <<managerVars, waitVars, refused_own_limit, released>>
  /\ UNCHANGED <<FLAGS_tablet_transaction_memory_limit_mb, mem_tracker_, metrics_,
                 consumption, transaction_memory_pressure_rejections,
                 transaction_memory_limit_rejections, pending_txns_, txn_tracker,
                 driver_mem_footprint, txn_consumed>>

\* Faulty variant of ReleasedFootprint: nothing is given back.
ReleasedNothing(k, d) == 0

\* Lines 222 and 225: st = FindOrDie(pending_txns_, driver); the bytes given
\* back are st.memory_footprint, cached by Add.
ReleasedFootprint(k, d) == pending_txns_[k][d]

\* Lines 221-229: under lock_, FindOrDie, mem_tracker_->Release, erase.
ReleaseErase(d) ==
  /\ ~txn_fatal
  /\ txn_pc[d] = "release_counted"
  /\ LockFree(txn_tracker[d])
  /\ LET k == txn_tracker[d] IN
       IF d \notin DOMAIN pending_txns_[k]
         THEN /\ txn_fatal' = TRUE
              /\ UNCHANGED <<consumption, pending_txns_, txn_pc, txn_tracker,
                             driver_mem_footprint, txn_consumed, released>>
         ELSE /\ consumption' =
                   IF mem_tracker_[k]
                     THEN Released(consumption, k, ReleasedFootprint(k, d))
                     ELSE consumption
              /\ pending_txns_' = [pending_txns_ EXCEPT ![k] = MapErase(@, d)]
              /\ txn_pc' = [txn_pc EXCEPT ![d] = "idle"]
              /\ txn_tracker' = [txn_tracker EXCEPT ![d] = NoTracker]
              /\ driver_mem_footprint' = [driver_mem_footprint EXCEPT ![d] = 0]
              /\ txn_consumed' = [txn_consumed EXCEPT ![d] = 0]
              /\ released' = released \cup {d}
              /\ UNCHANGED txn_fatal
  /\ UNCHANGED <<managerVars, waitVars, refused_own_limit>>
  /\ UNCHANGED <<FLAGS_tablet_transaction_memory_limit_mb, mem_tracker_, metrics_,
                 all_transactions_inflight, write_transactions_inflight,
                 alter_schema_transactions_inflight,
                 transaction_memory_pressure_rejections,
                 transaction_memory_limit_rejections>>

(***************************************************************************)
(* TransactionTracker::WaitForAllToFinish(timeout), called by one thread.  *)
(* The warnings it logs (lines 274-287) change nothing but the log.        *)
(***************************************************************************)
\* Line 254: int wait_time_us = 250.
InitialWaitTimeUs == 250
\* Line 288: the longest sleep, std::min(..., 1000000).
MaxWaitTimeUs == 1000000
\* Timeouts passed by the callers, microseconds.
TimeoutValues == {0, 1000}
\* The latest time of the model's clock, microseconds.
MaxClockUs == 2000
\* Line 249, "wait indefinitely": a timeout of the largest MonoDelta, which
\* no elapsed time exceeds; here a value above MaxClockUs.
IndefiniteTimeoutUs == 2000000000

MinOf(a, b) == IF a < b THEN a ELSE b

\* Lines 252-256: the locals are set, start_time = MonoTime::Now().
WaitForAllToFinish(k, t) ==
  /\ ~txn_fatal
  /\ wait_pc = "idle"
  /\ wait_pc' = "poll"
  /\ wait_tracker' = k
  /\ timeout' = t
  /\ wait_time_us' = InitialWaitTimeUs
  /\ start_time' = now_us
  /\ UNCHANGED <<now_us, txns, wait_status, lock_, last_sleep_us>>
  /\ UNCHANGED <<managerVars, txnVars>>

\* Faulty variant of HeldAfterGetPending: the lock is kept after the copy.
HeldAfterGetPendingKept == TRUE

\* Line 240: the lock_guard of GetPendingTransactions goes out of scope when
\* the copy is made, so the caller does not hold lock_ afterwards.
HeldAfterGetPending == FALSE

\* Lines 259-265 and 291: GetPendingTransactions copies the keys of
\* pending_txns_ under lock_ (lines 232-240); an empty copy ends the loop and
\* the call returns OK.
WaitGetPendingTransactions ==
  /\ ~txn_fatal
  /\ wait_pc = "poll"
  /\ LockFree(wait_tracker)
  /\ txns' = DOMAIN pending_txns_[wait_tracker]
  /\ lock_' = [lock_ EXCEPT ![wait_tracker] = HeldAfterGetPending]
  /\ IF txns' = {}
       THEN /\ wait_pc' = "returned"
            /\ wait_status' = [code |-> "OK", pending |-> 0]
       ELSE /\ wait_pc' = "check"
            /\ UNCHANGED wait_status
  /\ UNCHANGED <<now_us, wait_tracker, timeout, start_time, wait_time_us,
                 last_sleep_us>>
  /\ UNCHANGED <<managerVars, txnVars>>

\* Faulty variant of TimeoutElapsed: a wait of exactly the timeout counts.
TimeoutReached(diff, t) == diff >= t

\* Line 269: diff > timeout.
TimeoutElapsed(diff, t) == diff > t

\* Faulty variant of NextWaitTimeUs: the wait is taken as it is, so that the
\* first sleep lasts InitialWaitTimeUs.
NextWaitTimeUsUnchanged(w) == MinOf(w, MaxWaitTimeUs)

\* Line 288: std::min(wait_time_us * 5 / 4, 1000000), in int arithmetic.
NextWaitTimeUs(w) == MinOf((w * 5) \div 4, MaxWaitTimeUs)

\* Lines 267-273 and 288: now = MonoTime::Now(); past the timeout the call
\* returns TimedOut with txns.size(); otherwise wait_time_us grows by 5/4,
\* up to MaxWaitTimeUs.
WaitCheckTimeout ==
  /\ ~txn_fatal
  /\ wait_pc = "check"
  /\ IF TimeoutElapsed(now_us - start_time, timeout)
       THEN /\ wait_pc' = "returned"
            /\ wait_status' =
                 [code |-> "TimedOut", pending |-> Cardinality(txns)]
            /\ UNCHANGED wait_time_us
       ELSE /\ wait_pc' = "sleep"
            /\ wait_time_us' = NextWaitTimeUs(wait_time_us)
            /\ UNCHANGED wait_status
  /\ UNCHANGED <<now_us, wait_tracker, timeout, start_time, txns, lock_,
                 last_sleep_us>>
  /\ UNCHANGED <<managerVars, txnVars>>

\* Line 289: SleepFor(wait_time_us); the clock moves on by the time slept.
\* (The model's clock stops at MaxClockUs.)
WaitSleepFor ==
  /\ ~txn_fatal
  /\ wait_pc = "sleep"
  /\ now_us' = MinOf(now_us + wait_time_us, MaxClockUs)
  /\ last_sleep_us' = wait_time_us
  /\ wait_pc' = "poll"
  /\ UNCHANGED <<wait_tracker, timeout, start_time, wait_time_us, txns,
                 wait_status, lock_>>
  /\ UNCHANGED <<managerVars, txnVars>>

(***************************************************************************)
(* Tablet manager: variable groups and helpers.                            *)
(***************************************************************************)
initVars == <<init_pc, init_todo, init_tablet, init_status>>
createVars == <<create_pc, create_tablet, create_status>>
deleteVars == <<delete_pc, delete_peer, prev_state, delete_status>>
shutdownVars == <<shutdown_pc, peers_to_shutdown, shutdown_todo, shutdown_peer>>
openVars == <<open_pc, open_tablet, open_peer>>
reportVars ==
  <<report_pc, report_seq, report, generated_reports, previous_full,
    report_acked>>
peerVars == <<peer_state, peer_error, peer_tablet>>
poolVars == <<pool_queue, pool_shutdown>>
reportState ==
  <<dirty_tablets_, next_report_seq_, marked_since_report,
    deleted_since_report, failed_since_report>>

\* The process has not aborted.
Alive == mgr_fatal = "none"

\* boost::lock_guard<rw_spinlock>: exclusive mode waits for the readers.
LockExclusive == lock_shared_ = {}

TabletOf(p) == p[1]

\* The TabletPeer objects the map holds (AppendValuesFromMap).
MapPeers(m) == {m[t] : t \in DOMAIN m}

\* `new TabletPeer(...)`: the next object for the tablet, not built before.
FreshPeers(t) == {p \in Peers : TabletOf(p) = t /\ peer_state[p] = PEER_UNBORN}
NewPeer(t) ==
  CHOOSE p \in FreshPeers(t) : \A q \in FreshPeers(t) : p[2] <= q[2]

\* Peers built so far: a caller may hold a reference to any of them.
BornPeers == {p \in Peers : peer_state[p] # PEER_UNBORN}

(***************************************************************************)
(* TabletPeer (kudu/tablet/tablet_peer): the part the manager relies on.   *)
(***************************************************************************)
\* Shutdown() does nothing on a peer that is quiescing, shut down or failed
\* (the terminal states); it returns the prior state either way.
PeerShutdownActs(st) == st \in {PEER_INITIALIZING, PEER_RUNNING}

\* SetFailed(s): any state -> failed, with the error.
PeerSetFailed(p, err) ==
  /\ peer_state' = [peer_state EXCEPT ![p] = PEER_FAILED]
  /\ peer_error' = [peer_error EXCEPT ![p] = err]

\* Init() and Start() succeeded: initializing -> running.
PeerStarted(p) ==
  /\ peer_state' = [peer_state EXCEPT
                      ![p] = IF @ = PEER_INITIALIZING THEN PEER_RUNNING ELSE @]
  /\ UNCHANGED peer_error

(***************************************************************************)
(* TSTabletManager: state after the constructor.                           *)
(***************************************************************************)
ManagerConstructed ==
  /\ state_ = MANAGER_INITIALIZING
  /\ tablet_map_ = EmptyMap
  /\ creates_in_progress_ = {}
  /\ dirty_tablets_ = EmptyMap
  /\ next_report_seq_ = 0
  /\ lock_shared_ = {}
  /\ peer_state = [p \in Peers |-> PEER_UNBORN]
  /\ peer_error = [p \in Peers |-> "none"]
  /\ peer_tablet = [p \in Peers |-> FALSE]
  /\ pool_queue = <<>>
  /\ pool_shutdown = FALSE
  /\ executor_shutdowns = 0
  /\ mgr_fatal = "none"
  /\ init_pc = "idle"
  /\ init_todo = {}
  /\ init_tablet = NoTablet
  /\ init_status = "none"
  /\ create_pc = [c \in Creators |-> "idle"]
  /\ create_tablet = [c \in Creators |-> NoTablet]
  /\ create_status = [c \in Creators |-> "none"]
  /\ delete_pc = [x \in Deleters |-> "idle"]
  /\ delete_peer = [x \in Deleters |-> NoPeer]
  /\ prev_state = [x \in Deleters |-> "none"]
  /\ delete_status = [x \in Deleters |-> "none"]
  /\ shutdown_pc = [s \in ShutdownCallers |-> "idle"]
  /\ peers_to_shutdown = [s \in ShutdownCallers |-> {}]
  /\ shutdown_todo = [s \in ShutdownCallers |-> {}]
  /\ shutdown_peer = [s \in ShutdownCallers |-> NoPeer]
  /\ open_pc = "idle"
  /\ open_tablet = NoTablet
  /\ open_peer = NoPeer
  /\ report_pc = [r \in Reporters |-> "idle"]
  /\ report_seq = [r \in Reporters |-> 0]
  /\ report = NoReport
  /\ generated_reports = {}
  /\ previous_full = FALSE
  /\ report_acked = FALSE
  /\ marked_since_report = {}
  /\ deleted_since_report = {}
  /\ failed_since_report = {}

(***************************************************************************)
(* TSTabletManager::RegisterTablet and MarkDirtyUnlocked, as effects on    *)
(* the manager's maps (the callers hold lock_ in exclusive mode).          *)
(***************************************************************************)
\* InsertIfNotPresent(&tablet_map_, id, peer), else LOG(FATAL).
RegisterTablet(t, p) ==
  IF t \in DOMAIN tablet_map_
    THEN /\ mgr_fatal' = "RegisterTablet: already registered"
         /\ UNCHANGED tablet_map_
    ELSE /\ tablet_map_' = MapInsert(tablet_map_, t, p)
         /\ UNCHANGED mgr_fatal

\* Faulty variant of MarkDirtyUnlocked: the entry is stamped with the sequence
\* number of the report generated last, next_report_seq_ - 1.
MarkDirtyUnlockedLastSeq(t) ==
  /\ dirty_tablets_' = MapInsert(dirty_tablets_, t, next_report_seq_ - 1)
  /\ marked_since_report' = marked_since_report \cup {t}
  /\ UNCHANGED mgr_fatal

\* Lines 487-500: change_seq of the tablet's dirty entry becomes
\* next_report_seq_.
MarkDirtyUnlocked(t) ==
  IF t \in DOMAIN dirty_tablets_ /\ ~(next_report_seq_ >= dirty_tablets_[t])
    THEN /\ mgr_fatal' = "MarkDirtyUnlocked: CHECK_GE"
         /\ UNCHANGED <<dirty_tablets_, marked_since_report>>
    ELSE /\ dirty_tablets_' = MapInsert(dirty_tablets_, t, next_report_seq_)
         /\ marked_since_report' = marked_since_report \cup {t}
         /\ UNCHANGED mgr_fatal

(***************************************************************************)
(* TSTabletManager::Init                                                   *)
(***************************************************************************)
\* Lines 112-126: CHECK_EQ(state(), MANAGER_INITIALIZING) aborts a call made
\* in another state, so Init is called on an initializing manager only; then
\* the master block directory is listed.  listed = FALSE: ListDir fails.
InitListTablets(listed) ==
  /\ Alive
  /\ init_pc = "idle"
  /\ state_ = MANAGER_INITIALIZING
  /\ IF listed
       THEN /\ init_pc' = "loop"
            /\ init_todo' = DiskTablets
            /\ UNCHANGED init_status
       ELSE /\ init_pc' = "returned"
            /\ init_status' = "IOError"
            /\ UNCHANGED init_todo
  /\ UNCHANGED <<state_, tablet_map_, creates_in_progress_, reportState,
                 lock_shared_, peerVars, poolVars, executor_shutdowns,
                 mgr_fatal, init_tablet,
                 createVars, deleteVars, shutdownVars, openVars, reportVars>>
  /\ UNCHANGED trackerVars

\* Lines 129-141: OpenTabletMeta, new TabletPeer, RegisterTablet.
\* loaded = FALSE: OpenTabletMeta fails.
InitRegisterTablet(t, loaded) ==
  /\ Alive
  /\ init_pc = "loop"
  /\ t \in init_todo
  /\ IF ~loaded
       THEN /\ init_pc' = "returned"
            /\ init_status' = "IOError"
            /\ UNCHANGED <<init_todo, init_tablet, tablet_map_, peerVars,
                           mgr_fatal>>
       ELSE /\ LockExclusive
            /\ FreshPeers(t) # {}
            /\ RegisterTablet(t, NewPeer(t))
            /\ peer_state' = [peer_state EXCEPT ![NewPeer(t)] = PEER_INITIALIZING]
            /\ init_pc' = IF t \in DOMAIN tablet_map_ THEN init_pc ELSE "submit"
            /\ init_tablet' = t
            /\ UNCHANGED <<init_todo, init_status, peer_error, peer_tablet>>
  /\ UNCHANGED <<state_, creates_in_progress_, reportState, lock_shared_,
                 poolVars, executor_shutdowns,
                 createVars, deleteVars, shutdownVars, openVars, reportVars>>
  /\ UNCHANGED trackerVars

\* Lines 143-145: SubmitFunc(OpenTablet); a pool that was shut down refuses.
InitSubmit ==
  /\ Alive
  /\ init_pc = "submit"
  /\ IF pool_shutdown
       THEN /\ init_pc' = "returned"
            /\ init_status' = "ServiceUnavailable"
            /\ UNCHANGED <<pool_queue, init_todo>>
       ELSE /\ pool_queue' = Append(pool_queue, init_tablet)
            /\ init_todo' = init_todo \ {init_tablet}
            /\ init_pc' = "loop"
            /\ UNCHANGED init_status
  /\ init_tablet' = NoTablet
  /\ UNCHANGED <<state_, tablet_map_, creates_in_progress_, reportState,
                 lock_shared_, peerVars, pool_shutdown, executor_shutdowns,
                 mgr_fatal,
                 createVars, deleteVars, shutdownVars, openVars, reportVars>>
  /\ UNCHANGED trackerVars

\* Lines 148-153: under lock_, state_ = MANAGER_RUNNING; return OK.
InitSetRunning ==
  /\ Alive
  /\ init_pc = "loop"
  /\ init_todo = {}
  /\ LockExclusive
  /\ state_' = MANAGER_RUNNING
  /\ init_pc' = "returned"
  /\ init_status' = "OK"
  /\ UNCHANGED <<init_todo, init_tablet>>
  /\ UNCHANGED <<tablet_map_, creates_in_progress_, reportState, lock_shared_,
                 peerVars, poolVars, executor_shutdowns, mgr_fatal,
                 createVars, deleteVars, shutdownVars, openVars, reportVars>>
  /\ UNCHANGED trackerVars

(***************************************************************************)
(* TSTabletManager::CreateNewTablet                                        *)
(***************************************************************************)
\* Line 182: CHECK_EQ(state(), MANAGER_RUNNING) aborts a call made in another
\* state, so CreateNewTablet is called on a running manager only; lines
\* 184-195 are local.
CreateCheckRunning(c, t) ==
  /\ Alive
  /\ create_pc[c] = "idle"
  /\ state_ = MANAGER_RUNNING
  /\ create_pc' = [create_pc EXCEPT ![c] = "lookup"]
  /\ create_tablet' = [create_tablet EXCEPT ![c] = t]
  /\ UNCHANGED <<state_, tablet_map_, creates_in_progress_, reportState,
                 lock_shared_, peerVars, poolVars, executor_shutdowns,
                 mgr_fatal, create_status,
                 initVars, deleteVars, shutdownVars, openVars, reportVars>>
  /\ UNCHANGED trackerVars

\* Faulty variant of CreateAlreadyPresent: only the tablet map is consulted.
CreateAlreadyPresentMapOnly(t) == t \in DOMAIN tablet_map_

\* Lines 205-210: LookupTabletUnlocked(tablet_id, &junk) finds the tablet, or
\* InsertIfNotPresent(&creates_in_progress_, tablet_id) finds the identifier.
CreateAlreadyPresent(t) ==
  t \in DOMAIN tablet_map_ \/ t \in creates_in_progress_

\* Faulty variant of CreatesAfterInsert: the identifier is not recorded.
CreatesAfterNoInsert(t) == creates_in_progress_

\* Line 210: InsertIfNotPresent(&creates_in_progress_, tablet_id) inserts.
CreatesAfterInsert(t) == creates_in_progress_ \cup {t}

\* Lines 197-214: under lock_, AlreadyPresent if the tablet is registered or
\* its creation is in progress, else insert into creates_in_progress_.
CreateLookupAndInsert(c) ==
  /\ Alive
  /\ create_pc[c] = "lookup"
  /\ LockExclusive
  /\ LET t == create_tablet[c] IN
       IF CreateAlreadyPresent(t)
         THEN /\ create_pc' = [create_pc EXCEPT ![c] = "returned"]
              /\ create_status' = [create_status EXCEPT ![c] = "AlreadyPresent"]
              /\ UNCHANGED creates_in_progress_
         ELSE /\ creates_in_progress_' = CreatesAfterInsert(t)
              /\ create_pc' = [create_pc EXCEPT ![c] = "register"]
              /\ UNCHANGED create_status
  /\ UNCHANGED <<state_, tablet_map_, reportState, lock_shared_, peerVars,
                 poolVars, executor_shutdowns, mgr_fatal, create_tablet,
                 initVars, deleteVars, shutdownVars, openVars, reportVars>>
  /\ UNCHANGED trackerVars

\* Lines 216-250: the deleter is built; TabletMetadata::CreateNew and
\* PersistMasterBlock (persisted = FALSE: one of them fails); new TabletPeer;
\* RegisterTablet.
CreateRegister(c, persisted) ==
  /\ Alive
  /\ create_pc[c] = "register"
  /\ LET t == create_tablet[c] IN
       IF ~persisted
         THEN /\ create_pc' = [create_pc EXCEPT ![c] = "deleter"]
              /\ create_status' = [create_status EXCEPT ![c] = "IOError"]
              /\ UNCHANGED <<tablet_map_, peerVars, mgr_fatal>>
         ELSE /\ LockExclusive
              /\ FreshPeers(t) # {}
              /\ RegisterTablet(t, NewPeer(t))
              /\ peer_state' =
                   [peer_state EXCEPT ![NewPeer(t)] = PEER_INITIALIZING]
              /\ create_pc' = IF t \in DOMAIN tablet_map_
                                THEN create_pc
                                ELSE [create_pc EXCEPT ![c] = "submit"]
              /\ UNCHANGED <<create_status, peer_error, peer_tablet>>
  /\ UNCHANGED <<state_, creates_in_progress_, reportState, lock_shared_,
                 poolVars, executor_shutdowns, create_tablet,
                 initVars, deleteVars, shutdownVars, openVars, reportVars>>
  /\ UNCHANGED trackerVars

\* Lines 252-259: SubmitFunc(OpenTablet); a pool that was shut down refuses.
CreateSubmit(c) ==
  /\ Alive
  /\ create_pc[c] = "submit"
  /\ IF pool_shutdown
       THEN /\ create_status' =
                 [create_status EXCEPT ![c] = "ServiceUnavailable"]
            /\ UNCHANGED pool_queue
       ELSE /\ pool_queue' = Append(pool_queue, create_tablet[c])
            /\ create_status' = [create_status EXCEPT ![c] = "OK"]
  /\ create_pc' = [create_pc EXCEPT ![c] = "deleter"]
  /\ UNCHANGED <<state_, tablet_map_, creates_in_progress_, reportState,
                 lock_shared_, peerVars, pool_shutdown, executor_shutdowns,
                 mgr_fatal, create_tablet,
                 initVars, deleteVars, shutdownVars, openVars, reportVars>>
  /\ UNCHANGED trackerVars

\* Faulty variant of CreatesAfterErase: the identifier is left in the set.
CreatesAfterNoErase(t) == creates_in_progress_

\* Line 75: set_->erase(entry_).
CreatesAfterErase(t) == creates_in_progress_ \ {t}

\* Lines 73-76: ~CreatesInProgressDeleter, under lock_: CHECK(set_->erase(entry_));
\* CreateNewTablet then returns its status.
CreatesInProgressDeleter(c) ==
  /\ Alive
  /\ create_pc[c] = "deleter"
  /\ LockExclusive
  /\ IF create_tablet[c] \notin creates_in_progress_
       THEN /\ mgr_fatal' = "CreatesInProgressDeleter: CHECK(erase)"
            /\ UNCHANGED <<creates_in_progress_, create_pc>>
       ELSE /\ creates_in_progress_' = CreatesAfterErase(create_tablet[c])
            /\ create_pc' = [create_pc EXCEPT ![c] = "returned"]
            /\ UNCHANGED mgr_fatal
  /\ UNCHANGED <<state_, tablet_map_, reportState, lock_shared_, peerVars,
                 poolVars, executor_shutdowns, create_tablet, create_status,
                 initVars, deleteVars, shutdownVars, openVars, reportVars>>
  /\ UNCHANGED trackerVars

(***************************************************************************)
(* TSTabletManager::DeleteTablet                                           *)
(***************************************************************************)
\* Lines 263-265: TRACE evaluates tablet_peer->tablet()->tablet_id() when the
\* calling thread has a trace attached (traced); tablet() is NULL on a peer
\* whose Init has not succeeded.  Line 266, first half of
\* tablet_peer->Shutdown(): the prior state is read and a live peer starts
\* quiescing.  Lines 267-270: a peer found quiescing or shut down gives
\* ServiceUnavailable.
DeleteShutdownPeer(x, p, traced) ==
  /\ Alive
  /\ delete_pc[x] = "idle"
  /\ p \in BornPeers
  /\ delete_peer' = [delete_peer EXCEPT ![x] = p]
  /\ IF traced /\ ~peer_tablet[p]
       THEN /\ mgr_fatal' = "DeleteTablet: tablet() is NULL"
            /\ UNCHANGED <<prev_state, delete_pc, delete_status, peer_state>>
       ELSE /\ prev_state' = [prev_state EXCEPT ![x] = peer_state[p]]
            /\ UNCHANGED mgr_fatal
            /\ IF peer_state[p] \in {PEER_QUIESCING, PEER_SHUTDOWN}
                 THEN /\ delete_pc' = [delete_pc EXCEPT ![x] = "returned"]
                      /\ delete_status' =
                           [delete_status EXCEPT ![x] = "ServiceUnavailable"]
                      /\ UNCHANGED peer_state
                 ELSE /\ delete_pc' =
                           [delete_pc EXCEPT ![x] = "peer_quiescing"]
                      /\ peer_state' =
                           [peer_state EXCEPT
                              ![p] = IF PeerShutdownActs(@)
                                       THEN PEER_QUIESCING ELSE @]
                      /\ UNCHANGED delete_status
  /\ UNCHANGED <<state_, tablet_map_, creates_in_progress_, reportState,
                 lock_shared_, peer_error, peer_tablet, poolVars,
                 executor_shutdowns,
                 initVars, createVars, shutdownVars, openVars, reportVars>>
  /\ UNCHANGED trackerVars

\* Line 266, second half of tablet_peer->Shutdown(): quiescing -> shutdown.
DeletePeerShutDown(x) ==
  /\ Alive
  /\ delete_pc[x] = "peer_quiescing"
  /\ peer_state' =
       [peer_state EXCEPT
          ![delete_peer[x]] = IF @ = PEER_QUIESCING THEN PEER_SHUTDOWN ELSE @]
  /\ delete_pc' = [delete_pc EXCEPT ![x] = "erase"]
  /\ UNCHANGED <<state_, tablet_map_, creates_in_progress_, reportState,
                 lock_shared_, peer_error, peer_tablet, poolVars,
                 executor_shutdowns,
                 mgr_fatal, delete_peer, prev_state, delete_status,
                 initVars, createVars, shutdownVars, openVars, reportVars>>
  /\ UNCHANGED trackerVars

\* Lines 271-274: under lock_, CHECK_EQ(1, tablet_map_.erase(id)) with the
\* identifier read through tablet_peer->tablet(); OK.
DeleteErase(x) ==
  /\ Alive
  /\ delete_pc[x] = "erase"
  /\ LockExclusive
  /\ LET t == TabletOf(delete_peer[x]) IN
       IF ~peer_tablet[delete_peer[x]]
         THEN /\ mgr_fatal' = "DeleteTablet: tablet() is NULL"
              /\ UNCHANGED <<tablet_map_, delete_pc, delete_status,
                             deleted_since_report>>
       ELSE IF t \notin DOMAIN tablet_map_
         THEN /\ mgr_fatal' = "DeleteTablet: CHECK_EQ(1, erase)"
              /\ UNCHANGED <<tablet_map_, delete_pc, delete_status,
                             deleted_since_report>>
         ELSE /\ tablet_map_' = MapErase(tablet_map_, t)
              /\ delete_pc' = [delete_pc EXCEPT ![x] = "returned"]
              /\ delete_status' = [delete_status EXCEPT ![x] = "OK"]
              /\ deleted_since_report' = deleted_since_report \cup {t}
              /\ UNCHANGED mgr_fatal
  /\ UNCHANGED <<state_, creates_in_progress_, dirty_tablets_,
                 next_report_seq_, marked_since_report, failed_since_report,
                 lock_shared_,
                 peerVars, poolVars, executor_shutdowns, delete_peer, prev_state,
                 initVars, createVars, shutdownVars, openVars, reportVars>>
  /\ UNCHANGED trackerVars

(***************************************************************************)
(* TSTabletManager::OpenTablet, run by the bootstrap pool's worker         *)
(***************************************************************************)
\* The worker takes the oldest job; lines 298-302: CHECK(LookupTablet(id)).
OpenLookup ==
  /\ Alive
  /\ open_pc = "idle"
  /\ pool_queue # <<>>
  /\ pool_queue' = Tail(pool_queue)
  /\ LET t == Head(pool_queue) IN
       IF t \notin DOMAIN tablet_map_
         THEN /\ mgr_fatal' = "OpenTablet: CHECK(LookupTablet)"
              /\ UNCHANGED openVars
         ELSE /\ open_pc' = "bootstrap"
              /\ open_tablet' = t
              /\ open_peer' = tablet_map_[t]
              /\ UNCHANGED mgr_fatal
  /\ UNCHANGED <<state_, tablet_map_, creates_in_progress_, reportState,
                 lock_shared_, peerVars, pool_shutdown, executor_shutdowns,
                 initVars, createVars, deleteVars, shutdownVars, reportVars>>
  /\ UNCHANGED trackerVars

\* Lines 304-358: BootstrapTablet, tablet_peer->Init, tablet_peer->Start.
\* failed_step: "none", or the step that fails; the peer is then SetFailed.
\* tablet_peer->Init hands the bootstrapped tablet to the peer (lines 340-344),
\* so tablet() is not NULL once Init has succeeded.
OpenBootstrapAndStart(failed_step) ==
  /\ Alive
  /\ open_pc = "bootstrap"
  /\ IF failed_step = "none"
       THEN /\ PeerStarted(open_peer)
            /\ peer_tablet' = [peer_tablet EXCEPT ![open_peer] = TRUE]
            /\ open_pc' = "mark_dirty"
            /\ UNCHANGED <<open_tablet, open_peer, failed_since_report>>
       ELSE /\ PeerSetFailed(open_peer, failed_step)
            /\ peer_tablet' =
                 [peer_tablet EXCEPT ![open_peer] = (failed_step = "start")]
            /\ failed_since_report' = failed_since_report \cup {open_tablet}
            /\ open_pc' = "idle"
            /\ open_tablet' = NoTablet
            /\ open_peer' = NoPeer
  /\ UNCHANGED <<state_, tablet_map_, creates_in_progress_, dirty_tablets_,
                 next_report_seq_, marked_since_report, deleted_since_report,
                 lock_shared_, poolVars, executor_shutdowns, mgr_fatal,
                 initVars, createVars, deleteVars, shutdownVars, reportVars>>
  /\ UNCHANGED trackerVars

\* Lines 360-363: under lock_, MarkDirtyUnlocked(tablet_peer).
OpenMarkDirty ==
  /\ Alive
  /\ open_pc = "mark_dirty"
  /\ LockExclusive
  /\ MarkDirtyUnlocked(TabletOf(open_peer))
  /\ open_pc' = "idle"
  /\ open_tablet' = NoTablet
  /\ open_peer' = NoPeer
  /\ UNCHANGED <<state_, tablet_map_, creates_in_progress_, next_report_seq_,
                 deleted_since_report, failed_since_report,
                 lock_shared_, peerVars, poolVars, executor_shutdowns,
                 initVars, createVars, deleteVars, shutdownVars, reportVars>>
  /\ UNCHANGED trackerVars

(***************************************************************************)
(* TSTabletManager::Shutdown                                               *)
(***************************************************************************)
\* Lines 376-397: under lock_, return if quiescing or shut down, else
\* state_ = MANAGER_QUIESCING.
ShutdownBegin(s) ==
  /\ Alive
  /\ shutdown_pc[s] = "idle"
  /\ LockExclusive
  /\ IF state_ \in {MANAGER_QUIESCING, MANAGER_SHUTDOWN}
       THEN /\ shutdown_pc' = [shutdown_pc EXCEPT ![s] = "returned_early"]
            /\ UNCHANGED state_
       ELSE /\ state_' = MANAGER_QUIESCING
            /\ shutdown_pc' = [shutdown_pc EXCEPT ![s] = "pool"]
  /\ UNCHANGED <<tablet_map_, creates_in_progress_, reportState, lock_shared_,
                 peerVars, poolVars, executor_shutdowns, mgr_fatal,
                 peers_to_shutdown, shutdown_todo, shutdown_peer,
                 initVars, createVars, deleteVars, openVars, reportVars>>
  /\ UNCHANGED trackerVars

\* Line 400, open_tablet_pool_->Shutdown() starts: no job is accepted any more.
ShutdownPool(s) ==
  /\ Alive
  /\ shutdown_pc[s] = "pool"
  /\ pool_shutdown' = TRUE
  /\ shutdown_pc' = [shutdown_pc EXCEPT ![s] = "drain"]
  /\ UNCHANGED <<state_, tablet_map_, creates_in_progress_, reportState,
                 lock_shared_, peerVars, pool_queue, executor_shutdowns,
                 mgr_fatal, peers_to_shutdown, shutdown_todo, shutdown_peer,
                 initVars, createVars, deleteVars, openVars, reportVars>>
  /\ UNCHANGED trackerVars

\* Line 400 returns when the outstanding jobs are done; lines 405-406:
\* GetTabletPeers(&peers_to_shutdown) under lock_ in shared mode.
ShutdownSnapshot(s) ==
  /\ Alive
  /\ shutdown_pc[s] = "drain"
  /\ pool_queue = <<>>
  /\ open_pc = "idle"
  /\ peers_to_shutdown' = [peers_to_shutdown EXCEPT ![s] = MapPeers(tablet_map_)]
  /\ shutdown_todo' = [shutdown_todo EXCEPT ![s] = MapPeers(tablet_map_)]
  /\ shutdown_pc' = [shutdown_pc EXCEPT ![s] = "peers"]
  /\ UNCHANGED <<state_, tablet_map_, creates_in_progress_, reportState,
                 lock_shared_, peerVars, poolVars, executor_shutdowns,
                 mgr_fatal, shutdown_peer,
                 initVars, createVars, deleteVars, openVars, reportVars>>
  /\ UNCHANGED trackerVars

\* Lines 408-410, first half of peer->Shutdown() for the next peer.
ShutdownPeerQuiesce(s, p) ==
  /\ Alive
  /\ shutdown_pc[s] = "peers"
  /\ p \in shutdown_todo[s]
  /\ IF peer_state[p] \in {PEER_QUIESCING, PEER_SHUTDOWN}
       THEN /\ shutdown_todo' = [shutdown_todo EXCEPT ![s] = @ \ {p}]
            /\ UNCHANGED <<peer_state, shutdown_pc, shutdown_peer>>
       ELSE /\ peer_state' =
                 [peer_state EXCEPT
                    ![p] = IF PeerShutdownActs(@) THEN PEER_QUIESCING ELSE @]
            /\ shutdown_pc' = [shutdown_pc EXCEPT ![s] = "peer_quiescing"]
            /\ shutdown_peer' = [shutdown_peer EXCEPT ![s] = p]
            /\ UNCHANGED shutdown_todo
  /\ UNCHANGED <<state_, tablet_map_, creates_in_progress_, reportState,
                 lock_shared_, peer_error, peer_tablet, poolVars,
                 executor_shutdowns,
                 mgr_fatal, peers_to_shutdown,
                 initVars, createVars, deleteVars, openVars, reportVars>>
  /\ UNCHANGED trackerVars

\* Lines 408-410, second half of peer->Shutdown(): quiescing -> shutdown.
ShutdownPeerShutDown(s) ==
  /\ Alive
  /\ shutdown_pc[s] = "peer_quiescing"
  /\ peer_state' =
       [peer_state EXCEPT
          ![shutdown_peer[s]] = IF @ = PEER_QUIESCING THEN PEER_SHUTDOWN ELSE @]
  /\ shutdown_todo' = [shutdown_todo EXCEPT ![s] = @ \ {shutdown_peer[s]}]
  /\ shutdown_peer' = [shutdown_peer EXCEPT ![s] = NoPeer]
  /\ shutdown_pc' = [shutdown_pc EXCEPT ![s] = "peers"]
  /\ UNCHANGED <<state_, tablet_map_, creates_in_progress_, reportState,
                 lock_shared_, peer_error, peer_tablet, poolVars,
                 executor_shutdowns,
                 mgr_fatal, peers_to_shutdown,
                 initVars, createVars, deleteVars, openVars, reportVars>>
  /\ UNCHANGED trackerVars

\* Lines 412-425: the apply executors are shut down; under lock_,
\* CHECK_EQ(tablet_map_.size(), peers_to_shutdown.size()), clear the map,
\* state_ = MANAGER_SHUTDOWN.
ShutdownFinish(s) ==
  /\ Alive
  /\ shutdown_pc[s] = "peers"
  /\ shutdown_todo[s] = {}
  /\ LockExclusive
  /\ executor_shutdowns' = executor_shutdowns + 1
  /\ IF Cardinality(DOMAIN tablet_map_) # Cardinality(peers_to_shutdown[s])
       THEN /\ mgr_fatal' = "Shutdown: Map contents changed during shutdown!"
            /\ UNCHANGED <<tablet_map_, state_, shutdown_pc, peers_to_shutdown>>
       ELSE /\ tablet_map_' = EmptyMap
            /\ state_' = MANAGER_SHUTDOWN
            /\ shutdown_pc' = [shutdown_pc EXCEPT ![s] = "returned"]
            /\ peers_to_shutdown' = [peers_to_shutdown EXCEPT ![s] = {}]
            /\ UNCHANGED mgr_fatal
  /\ UNCHANGED <<creates_in_progress_, reportState, lock_shared_, peerVars,
                 poolVars, shutdown_todo, shutdown_peer,
                 initVars, createVars, deleteVars, openVars, reportVars>>
  /\ UNCHANGED trackerVars

(***************************************************************************)
(* Tablet reports                                                          *)
(***************************************************************************)
\* Lines 481-484: MarkTabletDirty(peer), the callback a peer holds.
MarkTabletDirty(p) ==
  /\ Alive
  /\ p \in BornPeers
  /\ LockExclusive
  /\ MarkDirtyUnlocked(TabletOf(p))
  /\ UNCHANGED <<state_, tablet_map_, creates_in_progress_, next_report_seq_,
                 deleted_since_report, failed_since_report,
                 lock_shared_, peerVars, poolVars, executor_shutdowns,
                 initVars, createVars, deleteVars, shutdownVars, openVars,
                 reportVars>>
  /\ UNCHANGED trackerVars

\* Lines 519-521 / 537-540, first half of next_report_seq_++: lock_ is taken
\* in shared mode and the counter is read.
GenerateReportReadSeq(r, kind) ==
  /\ Alive
  /\ report_pc[r] = "idle"
  /\ next_report_seq_ < MaxReports
  /\ lock_shared_' = lock_shared_ \cup {r}
  /\ report_seq' = [report_seq EXCEPT ![r] = next_report_seq_]
  /\ report_pc' = [report_pc EXCEPT ![r] = kind]
  /\ UNCHANGED <<state_, tablet_map_, creates_in_progress_, reportState,
                 peerVars, poolVars, executor_shutdowns, mgr_fatal,
                 report, generated_reports, previous_full, report_acked,
                 initVars, createVars, deleteVars, shutdownVars, openVars>>
  /\ UNCHANGED trackerVars

\* CreateReportedTabletPB, lines 502-516: identifier, peer state, and the
\* error of a failed peer.
ReportedTablet(t) ==
  LET p == tablet_map_[t] IN
    [tablet_id |-> t, state |-> peer_state[p],
     error |-> IF peer_state[p] = PEER_FAILED THEN peer_error[p] ELSE "none"]

\* Faulty variant of RemovedTabletIds: every dirty tablet is listed as
\* removed.
RemovedTabletIdsAllDirty == DOMAIN dirty_tablets_

\* Lines 523-532: the dirty entries for which FindOrNull(tablet_map_) finds
\* nothing.
RemovedTabletIds == DOMAIN dirty_tablets_ \ DOMAIN tablet_map_

\* Lines 521-533: second half of next_report_seq_++, then the dirty tablets
\* are listed as updated (registered) or removed (not registered).
GenerateIncrementalTabletReport(r) ==
  /\ Alive
  /\ report_pc[r] = "incremental"
  /\ next_report_seq_' = report_seq[r] + 1
  /\ report' =
       [sequence_number |-> report_seq[r],
        is_incremental |-> TRUE,
        updated_tablets |->
          {ReportedTablet(t) :
             t \in DOMAIN dirty_tablets_ \cap DOMAIN tablet_map_},
        removed_tablet_ids |-> RemovedTabletIds]
  /\ generated_reports' = generated_reports \cup {report_seq[r]}
  /\ previous_full' = (report # NoReport /\ ~report.is_incremental)
  /\ report_acked' = FALSE
  /\ marked_since_report' = {}
  /\ deleted_since_report' = {}
  /\ failed_since_report' = {}
  /\ lock_shared_' = lock_shared_ \ {r}
  /\ report_pc' = [report_pc EXCEPT ![r] = "idle"]
  /\ UNCHANGED <<state_, tablet_map_, creates_in_progress_, dirty_tablets_,
                 peerVars, poolVars, executor_shutdowns, mgr_fatal, report_seq,
                 initVars, createVars, deleteVars, shutdownVars, openVars>>
  /\ UNCHANGED trackerVars

\* Faulty variant of DirtyAfterFullReport: the dirty map is left as it is.
DirtyAfterFullReportKept == dirty_tablets_

\* Line 544: dirty_tablets_.clear().
DirtyAfterFullReport == EmptyMap

\* Lines 540-544: second half of next_report_seq_++, every registered tablet
\* is listed, dirty_tablets_.clear().
GenerateFullTabletReport(r) ==
  /\ Alive
  /\ report_pc[r] = "full"
  /\ next_report_seq_' = report_seq[r] + 1
  /\ report' =
       [sequence_number |-> report_seq[r],
        is_incremental |-> FALSE,
        updated_tablets |-> {ReportedTablet(t) : t \in DOMAIN tablet_map_},
        removed_tablet_ids |-> {}]
  /\ dirty_tablets_' = DirtyAfterFullReport
  /\ generated_reports' = generated_reports \cup {report_seq[r]}
  /\ previous_full' = (report # NoReport /\ ~report.is_incremental)
  /\ report_acked' = FALSE
  /\ marked_since_report' = {}
  /\ deleted_since_report' = {}
  /\ failed_since_report' = {}
  /\ lock_shared_' = lock_shared_ \ {r}
  /\ report_pc' = [report_pc EXCEPT ![r] = "idle"]
  /\ UNCHANGED <<state_, tablet_map_, creates_in_progress_,
                 peerVars, poolVars, executor_shutdowns, mgr_fatal, report_seq,
                 initVars, createVars, deleteVars, shutdownVars, openVars>>
  /\ UNCHANGED trackerVars

\* Faulty variant of DirtyAfterAck: an entry whose change_seq equals
\* acked_seq is kept.
DirtyAfterAckStrict(dirty, acked_seq) ==
  [t \in {u \in DOMAIN dirty : ~(dirty[u] < acked_seq)} |-> dirty[t]]

\* Lines 555-566: the entries with change_seq <= acked_seq are erased.
DirtyAfterAck(dirty, acked_seq) ==
  [t \in {u \in DOMAIN dirty : ~(dirty[u] <= acked_seq)} |-> dirty[t]]

\* Lines 547-567: under lock_ in shared mode, CHECK_LT(acked_seq,
\* next_report_seq_), erase every entry with change_seq <= acked_seq.
MarkTabletReportAcknowledged(r, acked_seq) ==
  /\ Alive
  /\ report_pc[r] = "idle"
  /\ acked_seq \in generated_reports
  /\ IF ~(acked_seq < next_report_seq_)
       THEN /\ mgr_fatal' = "MarkTabletReportAcknowledged: CHECK_LT"
            /\ UNCHANGED <<dirty_tablets_, report_acked>>
       ELSE /\ dirty_tablets_' = DirtyAfterAck(dirty_tablets_, acked_seq)
            /\ report_acked' =
                 (report_acked \/ acked_seq = report.sequence_number)
            /\ UNCHANGED mgr_fatal
  /\ UNCHANGED <<state_, tablet_map_, creates_in_progress_, next_report_seq_,
                 marked_since_report, deleted_since_report,
                 failed_since_report, lock_shared_,
                 peerVars, poolVars, executor_shutdowns,
                 initVars, createVars, deleteVars, shutdownVars, openVars,
                 report_pc, report_seq, report, generated_reports,
                 previous_full>>
  /\ UNCHANGED trackerVars

(***************************************************************************)
(* Transaction tracker specification: the trackers of two tablets, started *)
(* (StartInstrumentation, StartMemoryTracking) before the first            *)
(* transaction, as the tablet replica does; then concurrent Add / Release. *)
(***************************************************************************)
TrackerStarted ==
  /\ FLAGS_tablet_transaction_memory_limit_mb \in FlagValues
  /\ mem_tracker_ =
       [k \in Trackers |-> FLAGS_tablet_transaction_memory_limit_mb # 0 - 1]
  /\ metrics_ = [k \in Trackers |-> TRUE]
  /\ consumption = [n \in Nodes |-> 0]
  /\ all_transactions_inflight = [k \in Trackers |-> 0]
  /\ write_transactions_inflight = [k \in Trackers |-> 0]
  /\ alter_schema_transactions_inflight = [k \in Trackers |-> 0]
  /\ transaction_memory_pressure_rejections = [k \in Trackers |-> 0]
  /\ transaction_memory_limit_rejections = [k \in Trackers |-> 0]
  /\ pending_txns_ = [k \in Trackers |-> EmptyMap]
  /\ txn_pc = [d \in Drivers |-> "idle"]
  /\ txn_tracker = [d \in Drivers |-> NoTracker]
  /\ driver_mem_footprint = [d \in Drivers |-> 0]
  /\ txn_consumed = [d \in Drivers |-> 0]
  /\ txn_fatal = FALSE
  /\ refused_own_limit = [d \in Drivers |-> FALSE]
  /\ released = {}
  /\ NoWaitCall

\* The trackers as built, with the default of the flag left aside.
TrackerIdle ==
  /\ FLAGS_tablet_transaction_memory_limit_mb = 1
  /\ TrackerConstructed

TrackerInit == TrackerStarted /\ ManagerConstructed

\* The Add and Release calls of the given drivers.
TrackerSteps(drivers) ==
  \/ \E d \in drivers, k \in Trackers, b \in FootprintValues :
       AddTryConsume(d, k, b)
  \/ \E d \in drivers : AddCountPressure(d)
  \/ \E d \in drivers : AddCountLimit(d)
  \/ \E d \in drivers : AddIncrementCounters(d)
  \/ \E d \in drivers : AddInsert(d)
  \/ \E d \in drivers : ReleaseDecrementCounters(d)
  \/ \E d \in drivers : ReleaseErase(d)

TrackerNext == TrackerSteps(Drivers)

TrackerSpec == TrackerInit /\ [][TrackerNext]_vars

\* The trackers as constructed, neither metrics nor memory tracker attached,
\* with a memory limit of 1 MiB configured.
StartInit == TrackerIdle /\ ManagerConstructed

\* The tracker StartSpec is about.
StartSpecTracker == "trk1"

\* StartSpec: StartInstrumentation and StartMemoryTracking are called on one
\* tracker at any point between the Add and Release calls of its drivers.
StartNext ==
  \/ \E d \in 1..StartSpecDrivers, b \in FootprintValues :
       AddTryConsume(d, StartSpecTracker, b)
  \/ \E d \in 1..StartSpecDrivers : AddCountPressure(d)
  \/ \E d \in 1..StartSpecDrivers : AddCountLimit(d)
  \/ \E d \in 1..StartSpecDrivers : AddIncrementCounters(d)
  \/ \E d \in 1..StartSpecDrivers : AddInsert(d)
  \/ \E d \in 1..StartSpecDrivers : ReleaseDecrementCounters(d)
  \/ \E d \in 1..StartSpecDrivers : ReleaseErase(d)
  \/ StartInstrumentation(StartSpecTracker)
  \/ StartMemoryTracking(StartSpecTracker)

StartSpec == StartInit /\ [][StartNext]_vars

\* The steps of the thread that calls WaitForAllToFinish.
WaitSteps ==
  \/ \E k \in Trackers, t \in TimeoutValues : WaitForAllToFinish(k, t)
  \/ WaitGetPendingTransactions
  \/ WaitCheckTimeout
  \/ WaitSleepFor

\* The trackers started with memory tracking switched off (flag -1): no
\* mem_tracker_, so no Add is refused.
DrainInit ==
  /\ TrackerInit
  /\ FLAGS_tablet_transaction_memory_limit_mb = 0 - 1

\* The Add and Release calls of the given drivers when no Add is refused.
AdmittedSteps(drivers) ==
  \/ \E d \in drivers, k \in Trackers, b \in FootprintValues :
       AddTryConsume(d, k, b)
  \/ \E d \in drivers : AddIncrementCounters(d)
  \/ \E d \in drivers : AddInsert(d)
  \/ \E d \in drivers : ReleaseDecrementCounters(d)
  \/ \E d \in drivers : ReleaseErase(d)

\* DrainSpec: one thread calls WaitForAllToFinish while drivers call Add and
\* Release.  The waiting thread is a running thread and SleepFor returns, so
\* its steps are taken under weak fairness; the drivers' calls are not.
DrainNext ==
  \/ AdmittedSteps(1..DrainSpecDrivers)
  \/ WaitSteps

DrainSpec == DrainInit /\ [][DrainNext]_vars /\ WF_vars(WaitSteps)

\* The Release call of driver d.
ReleaseSteps(d) == ReleaseDecrementCounters(d) \/ ReleaseErase(d)

\* The steps of a thread that calls WaitForAllToFinish() (lines 247-250): the
\* call with the largest timeout, whose result goes to CHECK_OK.
WaitIndefinitelySteps ==
  \/ \E k \in Trackers : WaitForAllToFinish(k, IndefiniteTimeoutUs)
  \/ WaitGetPendingTransactions
  \/ WaitCheckTimeout
  \/ WaitSleepFor

\* The only Add call a driver makes: none once its Release has returned.
FirstAdd(d, k, b) ==
  /\ d \notin released
  /\ AddTryConsume(d, k, b)

\* IndefiniteDrainSpec: one thread waits indefinitely while each driver
\* submits at most one transaction, so that from some point on none is
\* admitted.  The waiting thread runs and SleepFor returns, and every pending
\* transaction is eventually released: the waiting thread's steps and each
\* driver's Release are taken under weak fairness; the Add calls are not.
IndefiniteDrainNext ==
  \/ \E d \in 1..DrainSpecDrivers, k \in Trackers, b \in FootprintValues :
       FirstAdd(d, k, b)
  \/ \E d \in 1..DrainSpecDrivers : AddIncrementCounters(d)
  \/ \E d \in 1..DrainSpecDrivers : AddInsert(d)
  \/ \E d \in 1..DrainSpecDrivers : ReleaseDecrementCounters(d)
  \/ \E d \in 1..DrainSpecDrivers : ReleaseErase(d)
  \/ WaitIndefinitelySteps

IndefiniteDrainSpec ==
  /\ DrainInit
  /\ [][IndefiniteDrainNext]_vars
  /\ WF_vars(WaitIndefinitelySteps)
  /\ \A d \in 1..DrainSpecDrivers : WF_vars(ReleaseSteps(d))

(***************************************************************************)
(* Tablet manager specifications.  The steps every one of them has: the    *)
(* Init call, the CreateNewTablet, DeleteTablet and Shutdown callers of    *)
(* the given sets, and the bootstrap pool's worker.                        *)
(***************************************************************************)
ManagerInit == ManagerConstructed /\ TrackerIdle

OpenFailures == {"none", "bootstrap", "init", "start"}

InitSteps ==
  \/ \E listed \in BOOLEAN : InitListTablets(listed)
  \/ \E t \in Tablets, loaded \in BOOLEAN : InitRegisterTablet(t, loaded)
  \/ InitSubmit
  \/ InitSetRunning

CreateSteps(callers) ==
  \/ \E c \in callers, t \in Tablets : CreateCheckRunning(c, t)
  \/ \E c \in callers : CreateLookupAndInsert(c)
  \/ \E c \in callers, persisted \in BOOLEAN : CreateRegister(c, persisted)
  \/ \E c \in callers : CreateSubmit(c)
  \/ \E c \in callers : CreatesInProgressDeleter(c)

DeleteSteps(callers) ==
  \/ \E x \in callers, p \in Peers, traced \in BOOLEAN :
       DeleteShutdownPeer(x, p, traced)
  \/ \E x \in callers : DeletePeerShutDown(x)
  \/ \E x \in callers : DeleteErase(x)

OpenSteps ==
  \/ OpenLookup
  \/ \E f \in OpenFailures : OpenBootstrapAndStart(f)
  \/ OpenMarkDirty

ShutdownSteps(callers) ==
  \/ \E s \in callers : ShutdownBegin(s)
  \/ \E s \in callers : ShutdownPool(s)
  \/ \E s \in callers : ShutdownSnapshot(s)
  \/ \E s \in callers, p \in Peers : ShutdownPeerQuiesce(s, p)
  \/ \E s \in callers : ShutdownPeerShutDown(s)
  \/ \E s \in callers : ShutdownFinish(s)

ReportSteps ==
  \/ \E p \in Peers : MarkTabletDirty(p)
  \/ \E r \in Reporters, kind \in {"incremental", "full"} :
       GenerateReportReadSeq(r, kind)
  \/ \E r \in Reporters : GenerateIncrementalTabletReport(r)
  \/ \E r \in Reporters : GenerateFullTabletReport(r)
  \/ \E r \in Reporters, acked_seq \in 0..(MaxReports - 1) :
       MarkTabletReportAcknowledged(r, acked_seq)

\* CreateSpec: concurrent CreateNewTablet calls, with a DeleteTablet and a
\* Shutdown call.
CreateNext ==
  \/ InitSteps
  \/ CreateSteps(Creators)
  \/ DeleteSteps(1..BackgroundDeleters)
  \/ OpenSteps
  \/ ShutdownSteps(1..CreateSpecShutdownCallers)

CreateSpec == ManagerInit /\ [][CreateNext]_vars

\* LifecycleSpec: Init and concurrent Shutdown calls, with a CreateNewTablet
\* and a DeleteTablet call.
LifecycleNext ==
  \/ InitSteps
  \/ CreateSteps(1..LifecycleSpecCreators)
  \/ DeleteSteps(1..BackgroundDeleters)
  \/ OpenSteps
  \/ ShutdownSteps(ShutdownCallers)

LifecycleSpec == ManagerInit /\ [][LifecycleNext]_vars

\* The manager once Init has returned OK and the worker has opened the
\* tablets found on disk (a state CreateSpec and LifecycleSpec reach).
ManagerRunning ==
  /\ state_ = MANAGER_RUNNING
  /\ tablet_map_ = [t \in DiskTablets |-> <<t, 1>>]
  /\ creates_in_progress_ = {}
  /\ dirty_tablets_ = [t \in DiskTablets |-> 0]
  /\ next_report_seq_ = 0
  /\ lock_shared_ = {}
  /\ peer_state = [p \in Peers |-> IF p[1] \in DiskTablets /\ p[2] = 1
                                     THEN PEER_RUNNING ELSE PEER_UNBORN]
  /\ peer_error = [p \in Peers |-> "none"]
  /\ peer_tablet = [p \in Peers |-> p[1] \in DiskTablets /\ p[2] = 1]
  /\ pool_queue = <<>>
  /\ pool_shutdown = FALSE
  /\ executor_shutdowns = 0
  /\ mgr_fatal = "none"
  /\ init_pc = "returned"
  /\ init_todo = {}
  /\ init_tablet = NoTablet
  /\ init_status = "OK"
  /\ create_pc = [c \in Creators |-> "idle"]
  /\ create_tablet = [c \in Creators |-> NoTablet]
  /\ create_status = [c \in Creators |-> "none"]
  /\ delete_pc = [x \in Deleters |-> "idle"]
  /\ delete_peer = [x \in Deleters |-> NoPeer]
  /\ prev_state = [x \in Deleters |-> "none"]
  /\ delete_status = [x \in Deleters |-> "none"]
  /\ shutdown_pc = [s \in ShutdownCallers |-> "idle"]
  /\ peers_to_shutdown = [s \in ShutdownCallers |-> {}]
  /\ shutdown_todo = [s \in ShutdownCallers |-> {}]
  /\ shutdown_peer = [s \in ShutdownCallers |-> NoPeer]
  /\ open_pc = "idle"
  /\ open_tablet = NoTablet
  /\ open_peer = NoPeer
  /\ report_pc = [r \in Reporters |-> "idle"]
  /\ report_seq = [r \in Reporters |-> 0]
  /\ report = NoReport
  /\ generated_reports = {}
  /\ previous_full = FALSE
  /\ report_acked = FALSE
  /\ marked_since_report = DiskTablets
  /\ deleted_since_report = {}
  /\ failed_since_report = {}

ReportInit == ManagerRunning /\ TrackerIdle

\* ReportSpec: on a running manager tablets are created, deleted and marked
\* dirty while reports are generated and acknowledged.
ReportNext ==
  \/ CreateSteps(1..ReportSpecCreators)
  \/ DeleteSteps(1..BackgroundDeleters)
  \/ OpenSteps
  \/ ReportSteps

ReportSpec == ReportInit /\ [][ReportNext]_vars

\* DeleteSpec: on a running manager concurrent DeleteTablet calls, on the
\* tablet found on disk and on a tablet that is created and opened meanwhile.
DeleteNext ==
  \/ CreateSteps(1..DeleteSpecCreators)
  \/ OpenSteps
  \/ DeleteSteps(Deleters)

DeleteSpec == ReportInit /\ [][DeleteNext]_vars

\* ShutdownSpec: on a running manager Shutdown is called while
\* CreateNewTablet and DeleteTablet calls and bootstrap jobs run.
ShutdownNext ==
  \/ CreateSteps(1..ShutdownSpecCreators)
  \/ DeleteSteps(1..BackgroundDeleters)
  \/ OpenSteps
  \/ ShutdownSteps(ShutdownCallers)

ShutdownSpec == ReportInit /\ [][ShutdownNext]_vars

(***************************************************************************)
(* Properties of the transaction tracker (TrackerSpec).                    *)
(***************************************************************************)
\* Drivers whose Add returned OK and whose Release has not given the bytes
\* back yet, on a tracker whose chain holds node n.
ReservedOn(n) ==
  {d \in Drivers : /\ txn_pc[d] \in {"pending", "release_counted"}
                   /\ txn_tracker[d] \in Trackers
                   /\ n \in Chain(txn_tracker[d])}

\* C1: in every interleaving of Add and Release on trackers sharing a
\* MemTracker tree, no node's consumption (tracker node or ancestor) exceeds
\* its limit, and the bytes every admitted, not yet released transaction
\* reserved are counted in the consumption of each node of its chain.
ConsumptionWithinLimitsAndReserved ==
  \A n \in Nodes :
    /\ (Limit(n) >= 0 => consumption[n] <= Limit(n))
    /\ consumption[n] >= SumOver(txn_consumed, ReservedOn(n))

\* C1 witness: transactions are pending on both trackers, and a third Add was
\* refused by the shared parent although its own node had room.
ParentRefusedWhileBothTrackersReserve ==
  /\ \A k \in Trackers : \E d \in Drivers :
       txn_pc[d] = "pending" /\ txn_tracker[d] = k /\ txn_consumed[d] > 0
  /\ \E d \in Drivers :
       /\ txn_pc[d] = "add_rejected"
       /\ CanConsumeNoAncestors(consumption, txn_tracker[d],
                                driver_mem_footprint[d])

\* No Add or Release call is in progress on tracker k.
TrackerQuiet(k) ==
  \A d \in Drivers : txn_tracker[d] = k => txn_pc[d] = "pending"

\* C2: for a tracker whose memory tracking was started before its first Add,
\* whenever no Add or Release call is in progress the consumption of the
\* tracker's node equals the sum of the cached memory_footprint values of
\* the pending-transactions map.
QuietConsumptionIsFootprintSum ==
  \A k \in Trackers :
    (mem_tracker_[k] /\ TrackerQuiet(k)) => consumption[k] = FootprintSum(k)

\* C2 witness: a quiet tracker that holds two entries after one of its Adds
\* was refused and returned.
QuietTrackerWithTwoEntries ==
  \E k \in Trackers :
    /\ mem_tracker_[k]
    /\ TrackerQuiet(k)
    /\ Cardinality(DOMAIN pending_txns_[k]) = 2
    /\ transaction_memory_limit_rejections[k] > 0

\* What a refused Add must leave alone.
AdmissionState ==
  <<consumption, pending_txns_, all_transactions_inflight,
    write_transactions_inflight, alter_schema_transactions_inflight>>

\* C3: an Add that TryConsume refused returns ServiceUnavailable, and no step
\* of it changes the consumption of any node, the pending-transactions map
\* or the in-flight gauges; only the rejection counters change.
RefusedAddChangesOnlyRejectionCounters ==
  [][\A d \in Drivers :
       /\ (txn_pc[d] = "idle" /\ txn_pc'[d] = "add_rejected")
            => UNCHANGED AdmissionState
       /\ (txn_pc[d] \in {"add_rejected", "add_counted"} /\ txn_pc'[d] # txn_pc[d])
            => /\ UNCHANGED AdmissionState
               /\ txn_pc[d] = "add_rejected" => txn_pc'[d] \in {"add_counted", "idle"}
               /\ txn_pc[d] = "add_counted" => txn_pc'[d] = "idle"
               /\ \A k \in Trackers :
                    /\ transaction_memory_pressure_rejections'[k]
                         >= transaction_memory_pressure_rejections[k]
                    /\ transaction_memory_limit_rejections'[k]
                         >= transaction_memory_limit_rejections[k]]_vars

\* C3 witness: a refused Add has counted both rejections and returned, and
\* the tracker still accounts exactly for its two pending transactions.
RefusedAddReturned ==
  \E k \in Trackers :
    /\ transaction_memory_pressure_rejections[k] = 1
    /\ transaction_memory_limit_rejections[k] = 1
    /\ \A d \in Drivers : txn_pc[d] \in {"idle", "pending"}
    /\ Cardinality(DOMAIN pending_txns_[k]) = 2
    /\ consumption[k] = 800 * KiB
    /\ all_transactions_inflight[k] = 2

\* consumption + b stays within the limit of the tracker's node and of every
\* ancestor.
WithinEveryLimit(k, b) ==
  /\ consumption[k] + b <= FLAGS_tablet_transaction_memory_limit_mb * 1024 * 1024
  /\ consumption[RootNode] + b <= RootLimit

\* C4: a memory tracker is attached exactly when the configured limit is not
\* -1, and an Add of footprint b on tracker k is admitted exactly when no
\* memory tracker is attached or consumption + b is within the limit of the
\* node and of every ancestor, and is refused otherwise.  With the 1 MiB
\* limit a 400 KiB request is admitted over 0 or 400 KiB and refused over
\* 800 KiB.
AdmittedIffWithinLimits ==
  [][/\ \A k \in Trackers :
          mem_tracker_[k] <=> FLAGS_tablet_transaction_memory_limit_mb # 0 - 1
     /\ \A d \in Drivers :
          (txn_pc[d] = "idle" /\ txn_pc'[d] # "idle") =>
            LET k == txn_tracker'[d]
                b == driver_mem_footprint'[d]
            IN /\ txn_pc'[d] \in {"add_admitted", "add_rejected"}
               /\ txn_pc'[d] = "add_admitted"
                    <=> (~mem_tracker_[k] \/ WithinEveryLimit(k, b))
               /\ (/\ FLAGS_tablet_transaction_memory_limit_mb = 1
                   /\ b = 400 * KiB
                   /\ consumption[RootNode] = consumption[k])
                    => /\ consumption[k] \in {0, 400 * KiB}
                         => txn_pc'[d] = "add_admitted"
                       /\ consumption[k] = 800 * KiB
                         => txn_pc'[d] = "add_rejected"]_vars

\* C4 witness: with the 1 MiB limit, two 400 KiB transactions are pending on
\* one tracker and a third 400 KiB Add on it has just been refused.
ThirdAdmissionRefused ==
  \E k \in Trackers, d \in Drivers :
    /\ FLAGS_tablet_transaction_memory_limit_mb = 1
    /\ txn_pc[d] = "add_rejected"
    /\ txn_tracker[d] = k
    /\ driver_mem_footprint[d] = 400 * KiB
    /\ consumption[k] = 800 * KiB
    /\ consumption[RootNode] = 800 * KiB
    /\ \A e \in DOMAIN pending_txns_[k] : pending_txns_[k][e] = 400 * KiB
    /\ Cardinality(DOMAIN pending_txns_[k]) = 2

(***************************************************************************)
(* Properties of CreateNewTablet (CreateSpec).                             *)
(***************************************************************************)
\* Callers past the insertion into creates_in_progress_ whose deleter has
\* not run yet.
CreatesRunning ==
  {c \in Creators : create_pc[c] \in {"register", "submit", "deleter"}}

\* C6 as stated: no tablet identifier is in the tablet map and in the
\* creates-in-progress set at once.
MapAndCreatesInProgressDisjoint ==
  DOMAIN tablet_map_ \cap creates_in_progress_ = {}

\* C6, amended: an identifier is in both the tablet map and the
\* creates-in-progress set only between RegisterTablet and the return of
\* the CreateNewTablet call that registered it; that call adds the
\* identifier to the map while it is in the set, and the identifier leaves
\* the set only as the call returns.
InBothOnlyUntilCreateReturns ==
  [][/\ \A t \in DOMAIN tablet_map_ \cap creates_in_progress_ :
          \E c \in Creators : /\ create_tablet[c] = t
                              /\ create_pc[c] \in {"submit", "deleter"}
     /\ \A c \in Creators :
          /\ (create_pc[c] = "register" /\ create_pc'[c] = "submit")
               => /\ create_tablet[c] \in creates_in_progress_
                  /\ create_tablet[c] \in creates_in_progress_'
                  /\ create_tablet[c] \notin DOMAIN tablet_map_
                  /\ create_tablet[c] \in DOMAIN tablet_map_'
          /\ (create_tablet[c] \in creates_in_progress_
                /\ create_tablet[c] \notin creates_in_progress_'
                /\ create_pc[c] \in {"register", "submit", "deleter"})
               => create_pc'[c] = "returned"]_vars

\* C6 witness: a registered tablet is still in creates_in_progress_ while
\* its CreateNewTablet call, which will return OK, has not returned.
RegisteredWhileCreateInProgress ==
  \E c \in Creators :
    /\ create_pc[c] = "deleter"
    /\ create_status[c] = "OK"
    /\ create_tablet[c] \in DOMAIN tablet_map_
    /\ create_tablet[c] \in creates_in_progress_

\* The CreateNewTablet calls made for tablet t.
CallsFor(t) == {c \in Creators : create_tablet[c] = t}

\* Every call for t has returned OK or AlreadyPresent, the tablet was not on
\* disk at start-up, and no DeleteTablet or Shutdown call was made.
SameIdCreatesSettled(t) ==
  /\ CallsFor(t) # {}
  /\ t \notin DiskTablets
  /\ \A c \in CallsFor(t) : /\ create_pc[c] = "returned"
                            /\ create_status[c] \in {"OK", "AlreadyPresent"}
  /\ \A x \in Deleters : delete_pc[x] = "idle"
  /\ \A s \in ShutdownCallers : shutdown_pc[s] = "idle"

\* C7: of the CreateNewTablet calls made for one new identifier on a running
\* manager, with no I/O or submission failure, exactly one returns OK and
\* the others AlreadyPresent, the map gains exactly one entry (one TabletPeer
\* is built), at most one call is past the lookup at any time, and
\* RegisterTablet's LOG(FATAL) is never reached.
OneCreateWinsPerTablet ==
  /\ mgr_fatal # "RegisterTablet: already registered"
  /\ \A t \in Tablets :
       /\ Cardinality(CallsFor(t) \cap CreatesRunning) <= 1
       /\ SameIdCreatesSettled(t) =>
            /\ Cardinality({c \in CallsFor(t) : create_status[c] = "OK"}) = 1
            /\ t \in DOMAIN tablet_map_
            /\ Cardinality({p \in BornPeers : TabletOf(p) = t}) = 1

\* C7 witness: two calls for the same new tablet have returned, one OK and
\* one AlreadyPresent.
TwoCreatesOneWinner ==
  \E t \in Tablets, c1, c2 \in Creators :
    /\ SameIdCreatesSettled(t)
    /\ c1 # c2
    /\ create_tablet[c1] = t /\ create_status[c1] = "OK"
    /\ create_tablet[c2] = t /\ create_status[c2] = "AlreadyPresent"

\* C8: creates_in_progress_ holds exactly the identifiers of the calls that
\* inserted one and have not returned; a call rejected with AlreadyPresent
\* leaves the set unchanged; when no call is running the set is empty.
CreatesInProgressIsRunningCalls ==
  [][/\ creates_in_progress_ = {create_tablet[c] : c \in CreatesRunning}
     /\ (\A c \in Creators : create_pc[c] \in {"idle", "returned"})
          => creates_in_progress_ = {}
     /\ \A c \in Creators :
          (create_pc[c] = "lookup" /\ create_pc'[c] = "returned")
            => /\ create_status'[c] = "AlreadyPresent"
               /\ UNCHANGED creates_in_progress_]_vars

\* C8 witness: a call that inserted its identifier returned an error, a call
\* for the same tablet was rejected with AlreadyPresent meanwhile, and the
\* set is empty again.
FailedCreateLeftNoEntry ==
  \E c1, c2 \in Creators :
    /\ create_pc[c1] = "returned" /\ create_pc[c2] = "returned"
    /\ create_status[c1] \in {"IOError", "ServiceUnavailable"}
    /\ create_status[c2] = "AlreadyPresent"
    /\ create_tablet[c1] = create_tablet[c2]
    /\ create_tablet[c1] \notin DOMAIN tablet_map_
    /\ creates_in_progress_ = {}

(***************************************************************************)
(* Properties of the manager state (LifecycleSpec).                        *)
(***************************************************************************)
\* Position of a manager state in initializing, running, quiescing, shutdown.
StateRank(st) ==
  CASE st = MANAGER_INITIALIZING -> 0
    [] st = MANAGER_RUNNING -> 1
    [] st = MANAGER_QUIESCING -> 2
    [] st = MANAGER_SHUTDOWN -> 3

\* C9 as stated: the manager state only moves forward; from quiescing or
\* shutdown it never returns to running or initializing.
StateOnlyMovesForward ==
  [][StateRank(state_') >= StateRank(state_)]_vars

\* C10 as stated: once a Shutdown call has run to completion the tablet map
\* is empty and the manager state is shutdown.
CompletedShutdownStays ==
  (\E s \in ShutdownCallers : shutdown_pc[s] = "returned")
    => (tablet_map_ = EmptyMap /\ state_ = MANAGER_SHUTDOWN)

(***************************************************************************)
(* Properties of the tablet reports (ReportSpec).                          *)
(***************************************************************************)
\* The latest report is incremental and was acknowledged after it was
\* generated.
LatestIncrementalReportAcked ==
  /\ report # NoReport
  /\ report.is_incremental
  /\ report_acked

\* C5: once the latest incremental report, of sequence s, was generated and
\* MarkTabletReportAcknowledged(s) has run, the dirty map holds exactly the
\* tablets marked dirty after that report was generated: the entries marked
\* before it are gone, the entries marked after it are kept.
AckKeepsExactlyLaterMarks ==
  LatestIncrementalReportAcked => DOMAIN dirty_tablets_ = marked_since_report

\* C5 witness: after the acknowledgement of the latest incremental report a
\* running tablet that the report listed is no longer dirty, and a tablet
\* marked since is.
AckDroppedOneKeptAnother ==
  /\ LatestIncrementalReportAcked
  /\ \E t \in DOMAIN tablet_map_ :
       /\ t \notin DOMAIN dirty_tablets_
       /\ \E e \in report.updated_tablets : e.tablet_id = t
  /\ \E u \in DOMAIN dirty_tablets_ :
       /\ u \in marked_since_report
       /\ dirty_tablets_[u] = report.sequence_number + 1

\* A report thread finishes generating an incremental report in this step.
IncrementalReportGenerated ==
  \E r \in Reporters : /\ report_pc[r] = "incremental"
                       /\ report_pc'[r] = "idle"

\* The tablets report rep lists as updated.
UpdatedIds(rep) == {e.tablet_id : e \in rep.updated_tablets}

DeletedTabletIsReportedRemoved ==
  [][IncrementalReportGenerated =>
       \A t \in deleted_since_report \ DOMAIN tablet_map_ :
         t \in report'.removed_tablet_ids]_vars

\* A report thread finishes generating a report, incremental or full, in
\* this step.
ReportGenerated ==
  \E r \in Reporters : /\ report_pc[r] \in {"incremental", "full"}
                       /\ report_pc'[r] = "idle"

\* The record a report holds for tablet t once its OpenTablet job failed at
\* the given step.
FailedTablet(t, step) == [tablet_id |-> t, state |-> PEER_FAILED, error |-> step]

\* C13: when a step of the OpenTablet job fails the peer is left failed with
\* that error and the manager state and maps stay as they are, and the report
\* generated next lists the tablet, if still registered, as failed with that
\* error.
FailedOpenIsInNextReport ==
  /\ [][\A f \in OpenFailures \ {"none"} :
         (open_pc = "bootstrap" /\ OpenBootstrapAndStart(f)) =>
           /\ peer_state'[open_peer] = PEER_FAILED
           /\ peer_error'[open_peer] = f
           /\ state_' = state_
           /\ mgr_fatal' = "none"]_vars
  /\ [][ReportGenerated =>
         \A t \in failed_since_report \cap DOMAIN tablet_map_ :
           peer_state[tablet_map_[t]] = PEER_FAILED =>
             FailedTablet(t, peer_error[tablet_map_[t]])
               \in report'.updated_tablets]_vars

\* C14: the reports get the sequence numbers 0, 1, 2, ... in the order they
\* are generated, with no repeat and no gap: the report generated in a step
\* gets the number of reports generated before it, which none of them has.
ReportSequenceNumbersAreConsecutive ==
  [][ReportGenerated =>
       /\ report'.sequence_number \notin generated_reports
       /\ report'.sequence_number = Cardinality(generated_reports)]_vars

\* C15: no method of a tablet peer is called by a thread that holds the
\* manager lock; for report generation: a report thread whose step builds
\* the record of a tablet, reading the peer's state and error, does not hold
\* lock_ in that step.
ReportReadsPeersWithoutManagerLock ==
  [][\A r \in Reporters :
       (/\ report_pc[r] \in {"incremental", "full"}
        /\ report_pc'[r] = "idle"
        /\ report'.updated_tablets # {}) => r \notin lock_shared_]_vars

(***************************************************************************)
(* Properties of DeleteTablet (DeleteSpec).                                *)
(***************************************************************************)
\* The DeleteTablet call of thread x takes a step.
DeleteStepOf(x) ==
  \/ delete_pc'[x] # delete_pc[x]
  \/ delete_pc[x] # "returned" /\ mgr_fatal' # mgr_fatal
       /\ mgr_fatal' \in {"DeleteTablet: tablet() is NULL",
                          "DeleteTablet: CHECK_EQ(1, erase)"}

\* C16: a DeleteTablet call that finds the peer quiescing or shut down
\* returns ServiceUnavailable and leaves the tablet map as it is; a call that
\* finds it in another state removes the peer's tablet, and only that one,
\* from the map and returns OK; of two calls on the same peer that have
\* returned exactly one returned OK.
DeleteRemovesTabletOrIsUnavailable ==
  /\ [][\A x \in Deleters :
         (delete_pc[x] = "idle" /\ DeleteStepOf(x)) =>
           IF peer_state[delete_peer'[x]] \in {PEER_QUIESCING, PEER_SHUTDOWN}
             THEN /\ delete_pc'[x] = "returned"
                  /\ delete_status'[x] = "ServiceUnavailable"
                  /\ tablet_map_' = tablet_map_
             ELSE /\ delete_pc'[x] = "peer_quiescing"
                  /\ tablet_map_' = tablet_map_]_vars
  /\ [][\A x \in Deleters :
         (delete_pc[x] = "erase" /\ DeleteStepOf(x)) =>
           /\ TabletOf(delete_peer[x]) \in DOMAIN tablet_map_
           /\ tablet_map_' = MapErase(tablet_map_, TabletOf(delete_peer[x]))
           /\ delete_pc'[x] = "returned"
           /\ delete_status'[x] = "OK"]_vars
  /\ [](\A x, y \in Deleters :
          (/\ x # y
           /\ delete_peer[x] = delete_peer[y]
           /\ delete_pc[x] = "returned"
           /\ delete_pc[y] = "returned") =>
            {delete_status[x], delete_status[y]}
              = {"OK", "ServiceUnavailable"})

(***************************************************************************)
(* Properties of the rejection counters (TrackerSpec).                     *)
(***************************************************************************)
\* The refused Add call of driver d takes the step that decides on the
\* limit rejection and returns.
RefusedAddDecidesLimit(d) == txn_pc[d] = "add_counted" /\ txn_pc'[d] = "idle"

\* C17: limit_rejections never exceeds pressure_rejections, a refused Add
\* adds exactly one to pressure_rejections, and it adds one to
\* limit_rejections exactly when its request exceeded the tracker's own limit
\* at the moment TryConsume refused it.
LimitRejectionCountsOwnLimitRefusals ==
  /\ [](\A k \in Trackers :
          transaction_memory_limit_rejections[k]
            <= transaction_memory_pressure_rejections[k])
  /\ [][\A d \in Drivers :
         (txn_pc[d] = "add_rejected" /\ txn_pc'[d] # "add_rejected") =>
           transaction_memory_pressure_rejections'[txn_tracker[d]]
             = transaction_memory_pressure_rejections[txn_tracker[d]] + 1]_vars
  /\ [][\A d \in Drivers :
         RefusedAddDecidesLimit(d) =>
           transaction_memory_limit_rejections'[txn_tracker[d]]
             = transaction_memory_limit_rejections[txn_tracker[d]]
                 + (IF refused_own_limit[d] THEN 1 ELSE 0)]_vars

(***************************************************************************)
(* Properties of an Add / Release pair (TrackerSpec).                      *)
(***************************************************************************)
\* Drivers of tracker k whose call is at one of the given positions.
DriversAt(k, positions) ==
  {d \in Drivers : txn_tracker[d] = k /\ txn_pc[d] \in positions}

\* Drivers whose Add has taken bytes that no Release has given back yet, on
\* a tracker whose chain holds node n.
HoldingOn(n) ==
  {d \in Drivers :
     /\ txn_tracker[d] \in Trackers
     /\ n \in Chain(txn_tracker[d])
     /\ txn_pc[d] \in {"add_admitted", "add_counted_in", "pending",
                        "release_counted"}}

\* C18: an Add that returned OK and its Release, interleaved with the calls
\* of other drivers, have no net effect.  The pending map, the consumption of
\* every memory node and the in-flight gauges are determined by the calls
\* that are between their Add and the end of their Release, so once
\* Release(d) has returned d is not in the map and all of them have the
\* values the other drivers alone give them.
AddReleasePairHasNoNetEffect ==
  /\ \A k \in Trackers :
       /\ DOMAIN pending_txns_[k] = DriversAt(k, {"pending", "release_counted"})
       /\ all_transactions_inflight[k]
            = Cardinality(DriversAt(k, {"add_counted_in", "pending"}))
       /\ write_transactions_inflight[k]
            = Cardinality({d \in DriversAt(k, {"add_counted_in", "pending"}) :
                             TxTypeOf(d) = WRITE_TXN})
       /\ alter_schema_transactions_inflight[k]
            = Cardinality({d \in DriversAt(k, {"add_counted_in", "pending"}) :
                             TxTypeOf(d) = ALTER_SCHEMA_TXN})
  /\ \A n \in Nodes :
       consumption[n] =
         IF FLAGS_tablet_transaction_memory_limit_mb = 0 - 1
           THEN 0
           ELSE SumOver(driver_mem_footprint, HoldingOn(n))

\* C18 witness: the pair of one driver is complete (its Release has returned
\* and it has no call in progress) while the transaction of a driver that
\* has not released yet is pending and alone accounts for the map, the gauge
\* and the consumption of its tracker and of the parent.
PairDoneBesidePendingTransaction ==
  \E d \in released, e \in Drivers \ released :
    /\ txn_pc[d] = "idle"
    /\ txn_pc[e] = "pending"
    /\ mem_tracker_[txn_tracker[e]]
    /\ DOMAIN pending_txns_[txn_tracker[e]] = {e}
    /\ all_transactions_inflight[txn_tracker[e]] = 1
    /\ consumption[txn_tracker[e]] = pending_txns_[txn_tracker[e]][e]
    /\ consumption[RootNode] = pending_txns_[txn_tracker[e]][e]

(***************************************************************************)
(* Properties of WaitForAllToFinish (DrainSpec).                           *)
(***************************************************************************)
\* The WaitForAllToFinish call returns in this step.
WaitReturns == wait_pc # "returned" /\ wait_pc' = "returned"

\* From the call of WaitForAllToFinish on, the tracker's pending map holds
\* driver d and nothing else: one pending transaction that is never released.
OnlyPendingNeverReleased(d) ==
  /\ <>(wait_pc # "idle")
  /\ [](wait_pc # "idle" => DOMAIN pending_txns_[wait_tracker] = {d})

\* C19: WaitForAllToFinish returns OK only in a step in which it finds the
\* pending map empty; it returns TimedOut only when its latest snapshot is
\* not empty and more than the timeout has passed since the call started, and
\* then reports the size of that snapshot; with one pending transaction that
\* is never released it returns TimedOut reporting 1.
WaitReturnsOnEmptyMapOrTimeout ==
  /\ [][WaitReturns =>
         \/ /\ wait_status'.code = "OK"
            /\ pending_txns_[wait_tracker] = EmptyMap
            /\ txns' = {}
         \/ /\ wait_status'.code = "TimedOut"
            /\ txns # {}
            /\ txns' = txns
            /\ now_us - start_time > timeout
            /\ wait_status'.pending = Cardinality(txns)]_vars
  /\ \A d \in Drivers :
       OnlyPendingNeverReleased(d) =>
         <>(wait_status = [code |-> "TimedOut", pending |-> 1])

\* C19 witness: a call with a timeout above zero has slept, found one
\* transaction still pending after the timeout and returned TimedOut
\* reporting 1.
WaitTimedOutOnOnePending ==
  /\ wait_pc = "returned"
  /\ timeout > 0
  /\ now_us - start_time > timeout
  /\ Cardinality(DOMAIN pending_txns_[wait_tracker]) = 1
  /\ txns = DOMAIN pending_txns_[wait_tracker]
  /\ wait_status = [code |-> "TimedOut", pending |-> 1]

\* C20: an incremental report lists as removed exactly the tablets that, when
\* it is generated, have a dirty entry and no tablet map entry, lists as
\* updated exactly the dirty tablets that are in the tablet map, each with its
\* peer's state and error, and its generation leaves the dirty map unchanged.
IncrementalReportListsDirtyTablets ==
  [][IncrementalReportGenerated =>
       /\ report'.is_incremental
       /\ \A t \in Tablets :
            t \in report'.removed_tablet_ids
              <=> (t \in DOMAIN dirty_tablets_ /\ t \notin DOMAIN tablet_map_)
       /\ report'.updated_tablets =
            {ReportedTablet(t) :
               t \in {u \in DOMAIN dirty_tablets_ : u \in DOMAIN tablet_map_}}
       /\ dirty_tablets_' = dirty_tablets_]_vars

\* C20 witness: the latest report is incremental and lists a deleted tablet
\* as removed and a registered one as updated, and both are still dirty.
ReportListsRemovedAndUpdated ==
  /\ report.is_incremental
  /\ \E t \in report.removed_tablet_ids, u \in UpdatedIds(report) :
       /\ t \notin DOMAIN tablet_map_
       /\ u \in DOMAIN tablet_map_
       /\ {t, u} \subseteq DOMAIN dirty_tablets_

\* A report thread finishes generating a full report in this step.
FullReportGenerated ==
  \E r \in Reporters : /\ report_pc[r] = "full"
                       /\ report_pc'[r] = "idle"

\* C21: a full report lists every tablet of the tablet map, each with its
\* peer's state and error, and none as removed, and its generation leaves the
\* dirty map empty; the incremental report generated next after a full report
\* lists, as updated or removed, only tablets marked dirty since that full
\* report was generated.
FullReportListsAllAndClearsDirty ==
  /\ [][FullReportGenerated =>
          /\ ~report'.is_incremental
          /\ report'.updated_tablets =
               {ReportedTablet(t) : t \in DOMAIN tablet_map_}
          /\ UpdatedIds(report') = DOMAIN tablet_map_
          /\ report'.removed_tablet_ids = {}
          /\ DOMAIN dirty_tablets_' = {}]_vars
  /\ [][(/\ IncrementalReportGenerated
          /\ report # NoReport
          /\ ~report.is_incremental) =>
          UpdatedIds(report') \cup report'.removed_tablet_ids
            \subseteq marked_since_report]_vars

\* C21 witness: the latest report is the incremental one generated next after
\* a full report; it lists t2, marked dirty since, and not t1, which is
\* registered and was dirty when the full report was generated.
IncrementalAfterFullListsLaterMarks ==
  /\ report.is_incremental
  /\ previous_full
  /\ report.sequence_number = 1
  /\ {"t1", "t2"} \subseteq DOMAIN tablet_map_
  /\ UpdatedIds(report) = {"t2"}
  /\ DOMAIN dirty_tablets_ = {"t2"}

\* This step writes the dirty map or the report sequence counter.
WritesDirtyMapOrSequence ==
  \/ dirty_tablets_' # dirty_tablets_
  \/ next_report_seq_' # next_report_seq_

\* C23: a step that writes the dirty map or the report sequence counter is
\* taken under lock_ in exclusive mode: no thread holds lock_ in shared mode
\* when it is taken, neither the writer nor a thread that reads or writes
\* them in its own critical section.
DirtyMapAndSequenceWrittenExclusively ==
  [][WritesDirtyMapOrSequence => lock_shared_ = {}]_vars

(***************************************************************************)
(* Properties of Shutdown against concurrent calls (ShutdownSpec).         *)
(***************************************************************************)
\* C22: whatever CreateNewTablet calls, DeleteTablet calls and bootstrap jobs
\* run beside Shutdown, the tablet map Shutdown finds under the lock has the
\* size of its peer snapshot: the process never aborts on
\* CHECK_EQ(tablet_map_.size(), peers_to_shutdown.size()).
ShutdownFindsMapSizeOfSnapshot ==
  mgr_fatal # "Shutdown: Map contents changed during shutdown!"

(***************************************************************************)
(* Properties of late instrumentation and memory tracking (StartSpec).     *)
(***************************************************************************)
\* The pending transactions of the given type on tracker k.
PendingOfType(k, type) == {d \in DOMAIN pending_txns_[k] : TxTypeOf(d) = type}

\* C24: whatever the order of StartInstrumentation, Add and Release, when no
\* call is in progress on an instrumented tracker all_transactions_inflight
\* is the number of entries of pending_txns_ and each per-type gauge is the
\* number of pending transactions of that type; and every gauge Release
\* decrements is strictly positive, so no DCHECK_GT fails and no gauge wraps.
GaugesCountPendingTransactions ==
  /\ [](\A k \in Trackers :
          (metrics_[k] /\ TrackerQuiet(k)) =>
            /\ all_transactions_inflight[k] = Cardinality(DOMAIN pending_txns_[k])
            /\ write_transactions_inflight[k] =
                 Cardinality(PendingOfType(k, WRITE_TXN))
            /\ alter_schema_transactions_inflight[k] =
                 Cardinality(PendingOfType(k, ALTER_SCHEMA_TXN)))
  /\ [][\A d \in Drivers :
         (/\ txn_pc[d] = "pending"
          /\ metrics_[txn_tracker[d]]
          /\ ReleaseDecrementCounters(d)) =>
           ~DecrementCheckFails(d, txn_tracker[d])]_vars

\* C26: whatever the order of StartMemoryTracking, Add and Release, the
\* bytes a Release gives back to the memory tracker are the bytes the
\* matching Add consumed from it, no node's consumption drops below zero,
\* and the consumption of a tracker's node is zero whenever its map is empty
\* and no call is in progress on it.
ReleaseReturnsOnlyConsumedBytes ==
  /\ [][\A d \in Drivers :
         (txn_pc[d] = "release_counted" /\ txn_pc'[d] = "idle") =>
           consumption[txn_tracker[d]] - consumption'[txn_tracker[d]]
             = txn_consumed[d]]_vars
  /\ [](\A n \in Nodes : consumption[n] >= 0)
  /\ [](\A k \in Trackers :
          (/\ mem_tracker_[k]
           /\ DOMAIN pending_txns_[k] = {}
           /\ TrackerQuiet(k)) => consumption[k] = 0)

(***************************************************************************)
(* Properties of the indefinite wait (IndefiniteDrainSpec).                *)
(***************************************************************************)
\* C25: when every pending transaction is eventually released and no
\* transaction is admitted from some point on, WaitForAllToFinish with the
\* unbounded timeout eventually returns OK; and the waiting thread holds
\* lock_ while it copies the pending set only: between its steps, asleep
\* included, the lock is free and a Release that reached its critical
\* section can take its step.
IndefiniteWaitReturnsAndBlocksNoRelease ==
  /\ <>(wait_pc = "returned" /\ wait_status.code = "OK")
  /\ [](\A k \in Trackers : ~lock_[k])
  /\ [](\A d \in Drivers :
          (wait_pc = "sleep" /\ txn_pc[d] = "release_counted") =>
            ENABLED ReleaseErase(d))

\* C25 witness: the indefinite wait returned OK after it slept while a
\* transaction was pending on its tracker, and that transaction was released.
IndefiniteWaitReturnedAfterRelease ==
  /\ wait_pc = "returned"
  /\ wait_status.code = "OK"
  /\ timeout = IndefiniteTimeoutUs
  /\ now_us > start_time
  /\ released # {}
  /\ \A k \in Trackers : DOMAIN pending_txns_[k] = {}

\* The waiting thread sleeps in this step, for wait_time_us.
Sleeps == wait_pc = "sleep" /\ wait_pc' = "poll"

\* 5/4 of a time, in whole microseconds.
FiveFourths(us) == (us * 5) \div 4

\* C27: the first sleep of WaitForAllToFinish lasts 5/4 of 250 microseconds,
\* rounded down, that is 312; each later sleep lasts 5/4 of the previous one,
\* rounded down, or 1,000,000 microseconds if that is less; so no sleep is
\* longer than 1,000,000 microseconds.
SleepsGrowFromFiveFourthsOfInitialWait ==
  [][Sleeps =>
       /\ wait_time_us <= MaxWaitTimeUs
       /\ IF last_sleep_us = 0
            THEN wait_time_us = FiveFourths(InitialWaitTimeUs)
            ELSE wait_time_us =
                   MinOf(FiveFourths(last_sleep_us), MaxWaitTimeUs)]_vars

\* C27 as stated: the first sleep lasts 250 microseconds.
SleepsGrowFromInitialWait ==
  [][Sleeps =>
       /\ wait_time_us <= MaxWaitTimeUs
       /\ IF last_sleep_us = 0
            THEN wait_time_us = InitialWaitTimeUs
            ELSE wait_time_us =
                   MinOf(FiveFourths(last_sleep_us), MaxWaitTimeUs)]_vars

\* C27 witness: the call has slept often enough for the sleeps to have grown
\* from the first one to the longest, and goes on polling.
SleptTheLongestTime ==
  /\ wait_pc = "poll"
  /\ last_sleep_us = MaxWaitTimeUs
  /\ start_time = 0
  /\ now_us > FiveFourths(InitialWaitTimeUs)

====
